---- MODULE Spec2Model ----
(***************************************************************************)
(* A model of the search-syntax parser of static/app/components/           *)
(* searchSyntax/parser.tsx: the token constructors, the semantic           *)
(* predicates, the post-parse validator, parseSearch and joinQuery.        *)
(*                                                                         *)
(* Representation of JavaScript values:                                    *)
(*   - a string whose characters the code inspects (a text value, a raw    *)
(*     number, a raw boolean) is a sequence of one-character strings;      *)
(*     Str turns it into the TLA+ string it spells;                        *)
(*   - every other string (a node's `text`, a key name, a reason) is a     *)
(*     TLA+ string, concatenated with \o;                                  *)
(*   - null is the record Null, undefined the record Undefined, an array   *)
(*     a sequence; an optional operator that is absent is NoOperator;      *)
(*   - a number is a decimal [m |-> mantissa, e |-> exponent of ten] in    *)
(*     normal form, or NaN.                                                *)
(***************************************************************************)
EXTENDS Integers, Sequences, FiniteSets, TLC

VARIABLES
    config,     \* the SearchConfig the TokenConverter was constructed with
    query,      \* the search query: the sequence of lexemes typed so far
    parsed,     \* what parseSearch(query) returned
    threw,      \* whether grammar.parse raised an error on `query`
    escaped,    \* whether an exception left parseSearch
    joined,     \* joinQuery(parsed) with the default flags
    call,       \* the last direct call of an exported function: name and arguments
    ret,        \* what that call returned
    mounted,    \* whether the IssueWidgetQueries component has been mounted
    props,      \* the component's props: widget, selection, cursor
    state,      \* the component's state
    requests,   \* one entry per fetchData call: the API request and the call's locals
    dataFetched \* the arguments of the onDataFetched calls, in order

parserVars == <<config, query, parsed, threw, escaped, joined, call, ret>>

widgetVars == <<mounted, props, state, requests, dataFetched>>

vars == <<config, query, parsed, threw, escaped, joined, call, ret,
          mounted, props, state, requests, dataFetched>>

----------------------------------------------------------------------------
(* Bounds of the model *)

\* longest query, in lexemes
MaxLexemes == 3
\* longest term list handed to joinQuery
MaxTerms == 3
\* longest raw string handed to a value constructor or to the text validator
MaxStrLen == 3

----------------------------------------------------------------------------
(* JavaScript values *)

Null == [type |-> "null"]
Undefined == [type |-> "undefined"]
NaN == [type |-> "NaN"]
NoOperator == "<null>"

\* F applied to the value v, which is then computed once
With(v, F(_)) == F(v)

RECURSIVE Str(_)
Str(cs) == IF cs = <<>> THEN "" ELSE Head(cs) \o Str(Tail(cs))

RECURSIVE SeqsUpTo(_, _)
SeqsUpTo(S, n) ==
    IF n = 0 THEN {<<>>}
    ELSE LET shorter == SeqsUpTo(S, n - 1)
         IN  shorter \cup {Append(s, c) : s \in shorter, c \in S}

\* String.prototype.toLowerCase on the letters the model uses
LowerChar(c) ==
    CASE c = "T" -> "t" [] c = "R" -> "r" [] c = "U" -> "u" [] c = "E" -> "e"
      [] c = "F" -> "f" [] c = "A" -> "a" [] c = "L" -> "l" [] c = "S" -> "s"
      [] OTHER -> c

toLowerCase(cs) == [i \in 1..Len(cs) |-> LowerChar(cs[i])]

IsDigit(c) == c \in {"0", "1", "2", "3", "4", "5", "6", "7", "8", "9"}

DigitVal(c) ==
    CASE c = "0" -> 0 [] c = "1" -> 1 [] c = "2" -> 2 [] c = "3" -> 3 [] c = "4" -> 4
      [] c = "5" -> 5 [] c = "6" -> 6 [] c = "7" -> 7 [] c = "8" -> 8 [] c = "9" -> 9

RECURSIVE DigitsVal(_)
DigitsVal(ds) ==
    IF ds = <<>> THEN 0
    ELSE 10 * DigitsVal(SubSeq(ds, 1, Len(ds) - 1)) + DigitVal(ds[Len(ds)])

\* the normal form of m * 10^e: no trailing zero in the mantissa
RECURSIVE Norm(_, _)
Norm(m, e) ==
    IF m = 0 THEN [m |-> 0, e |-> 0]
    ELSE IF m % 10 = 0 THEN Norm(m \div 10, e + 1)
    ELSE [m |-> m, e |-> e]

Int2Num(n) == Norm(n, 0)

\* the product of two JavaScript numbers
NumTimes(a, b) ==
    IF a = NaN \/ b = NaN THEN NaN ELSE Norm(a.m * b.m, a.e + b.e)

\* Number(string) on decimal literals: [-] digits [. digits]; "" is 0
Number(cs) ==
    LET neg  == cs /= <<>> /\ cs[1] = "-"
        body == IF neg THEN Tail(cs) ELSE cs
        dots == {i \in 1..Len(body) : body[i] = "."}
        dot  == IF dots = {} THEN Len(body) + 1 ELSE CHOOSE i \in dots : \A j \in dots : i <= j
        ip   == SubSeq(body, 1, dot - 1)
        fp   == SubSeq(body, dot + 1, Len(body))
        ok   == /\ \A i \in 1..Len(ip) : IsDigit(ip[i])
                /\ \A i \in 1..Len(fp) : IsDigit(fp[i])
                /\ Len(ip) + Len(fp) > 0
        mag  == Norm(DigitsVal(ip \o fp), 0 - Len(fp))
    IN  IF cs = <<>> THEN [m |-> 0, e |-> 0]
        ELSE IF ~ok THEN NaN
        ELSE IF neg THEN [m |-> 0 - mag.m, e |-> mag.e]
        ELSE mag

----------------------------------------------------------------------------
(* Enumerations and the filter type configuration *)

Token ==
    [Spaces |-> "spaces", Filter |-> "filter", FreeText |-> "freeText",
     LogicGroup |-> "logicGroup", LogicBoolean |-> "logicBoolean",
     KeySimple |-> "keySimple", KeyExplicitTag |-> "keyExplicitTag",
     KeyAggregate |-> "keyAggregate", KeyAggregateArgs |-> "keyAggregateArgs",
     KeyAggregateParam |-> "keyAggregateParam",
     ValueIso8601Date |-> "valueIso8601Date", ValueRelativeDate |-> "valueRelativeDate",
     ValueDuration |-> "valueDuration", ValuePercentage |-> "valuePercentage",
     ValueBoolean |-> "valueBoolean", ValueNumber |-> "valueNumber",
     ValueText |-> "valueText", ValueNumberList |-> "valueNumberList",
     ValueTextList |-> "valueTextList"]

TermOperator ==
    [Default |-> "", GreaterThanEqual |-> ">=", LessThanEqual |-> "<=",
     GreaterThan |-> ">", LessThan |-> "<", Equal |-> "=", NotEqual |-> "!="]

BooleanOperator == [And |-> "AND", Or |-> "OR"]

FilterType ==
    [Text |-> "text", TextIn |-> "textIn", Date |-> "date",
     SpecificDate |-> "specificDate", RelativeDate |-> "relativeDate",
     Duration |-> "duration", Numeric |-> "numeric", NumericIn |-> "numericIn",
     Boolean |-> "boolean", AggregateDuration |-> "aggregateDuration",
     AggregatePercentage |-> "aggregatePercentage",
     AggregateNumeric |-> "aggregateNumeric", AggregateDate |-> "aggregateDate",
     AggregateRelativeDate |-> "aggregateRelativeDate", Has |-> "has", Is |-> "is"]

FilterTypes == {FilterType[f] : f \in DOMAIN FilterType}

AggregateFilter ==
    {FilterType.AggregateDate, FilterType.AggregateDuration, FilterType.AggregateNumeric,
     FilterType.AggregatePercentage, FilterType.AggregateRelativeDate}

allOperators ==
    <<TermOperator.Default, TermOperator.GreaterThanEqual, TermOperator.LessThanEqual,
      TermOperator.GreaterThan, TermOperator.LessThan, TermOperator.Equal,
      TermOperator.NotEqual>>

basicOperators == <<TermOperator.Default, TermOperator.NotEqual>>

textKeys == <<Token.KeySimple, Token.KeyExplicitTag>>

\* numberUnits with the factors of k and m exchanged
numberUnits_swapped == [b |-> 1000000000, m |-> 1000, k |-> 1000000]

\* the own properties of the numberUnits object
numberUnits == [b |-> 1000000000, m |-> 1000000, k |-> 1000]

FilterConfig(keys, ops, values, negate) ==
    [validKeys |-> keys, validOps |-> ops, validValues |-> values, canNegate |-> negate]

filterTypeConfig ==
    [text |-> FilterConfig(textKeys, basicOperators, <<Token.ValueText>>, TRUE),
     textIn |-> FilterConfig(textKeys, <<>>, <<Token.ValueTextList>>, TRUE),
     date |-> FilterConfig(<<Token.KeySimple>>, allOperators, <<Token.ValueIso8601Date>>, FALSE),
     specificDate |-> FilterConfig(<<Token.KeySimple>>, <<>>, <<Token.ValueIso8601Date>>, FALSE),
     relativeDate |-> FilterConfig(<<Token.KeySimple>>, <<>>, <<Token.ValueRelativeDate>>, FALSE),
     duration |-> FilterConfig(<<Token.KeySimple>>, allOperators, <<Token.ValueDuration>>, TRUE),
     numeric |-> FilterConfig(<<Token.KeySimple>>, allOperators, <<Token.ValueNumber>>, TRUE),
     numericIn |-> FilterConfig(<<Token.KeySimple>>, <<>>, <<Token.ValueNumberList>>, TRUE),
     boolean |-> FilterConfig(<<Token.KeySimple>>, basicOperators, <<Token.ValueBoolean>>, TRUE),
     aggregateDuration |->
        FilterConfig(<<Token.KeyAggregate>>, allOperators, <<Token.ValueDuration>>, TRUE),
     aggregateNumeric |->
        FilterConfig(<<Token.KeyAggregate>>, allOperators, <<Token.ValueNumber>>, TRUE),
     aggregatePercentage |->
        FilterConfig(<<Token.KeyAggregate>>, allOperators, <<Token.ValuePercentage>>, TRUE),
     aggregateDate |->
        FilterConfig(<<Token.KeyAggregate>>, allOperators, <<Token.ValueIso8601Date>>, TRUE),
     aggregateRelativeDate |->
        FilterConfig(<<Token.KeyAggregate>>, allOperators, <<Token.ValueRelativeDate>>, TRUE),
     has |-> FilterConfig(<<Token.KeySimple>>, basicOperators, <<>>, TRUE),
     is |-> FilterConfig(<<Token.KeySimple>>, basicOperators, <<Token.ValueText>>, TRUE)]

Range(s) == {s[i] : i \in DOMAIN s}

----------------------------------------------------------------------------
(* The field catalog (sentry/utils/fields and sentry/utils/discover/fields) *)

FieldKind == [FIELD |-> "field", FUNCTION |-> "function"]

FieldValueType ==
    [STRING |-> "string", NUMBER |-> "number", INTEGER |-> "integer",
     DURATION |-> "duration", DATE |-> "date", PERCENTAGE |-> "percentage",
     BOOLEAN |-> "boolean"]

\* a field definition without a value type: an aggregation that takes any value
NoValueType == "<none>"

FieldDef(kind, valueType, textOps) ==
    [kind |-> kind, valueType |-> valueType, allowTextOperators |-> textOps]

FIELDS ==
    [message |-> FieldDef(FieldKind.FIELD, FieldValueType.STRING, FALSE),
     release |-> FieldDef(FieldKind.FIELD, FieldValueType.STRING, TRUE),
     duration |-> FieldDef(FieldKind.FIELD, FieldValueType.DURATION, FALSE),
     timestamp |-> FieldDef(FieldKind.FIELD, FieldValueType.DATE, FALSE),
     handled |-> FieldDef(FieldKind.FIELD, FieldValueType.BOOLEAN, FALSE),
     times_seen |-> FieldDef(FieldKind.FIELD, FieldValueType.INTEGER, FALSE),
     count |-> FieldDef(FieldKind.FUNCTION, FieldValueType.NUMBER, FALSE),
     p95 |-> FieldDef(FieldKind.FUNCTION, FieldValueType.DURATION, FALSE),
     failure_rate |-> FieldDef(FieldKind.FUNCTION, FieldValueType.PERCENTAGE, FALSE),
     last_seen |-> FieldDef(FieldKind.FUNCTION, FieldValueType.DATE, FALSE),
     max |-> FieldDef(FieldKind.FUNCTION, NoValueType, FALSE)]

\* key names outside FIELDS that the model uses
Measurements == {"measurements.lcp", "measurements.cls"}
DurationMeasurements == {"measurements.lcp"}
SpanOperationBreakdownFields == {"spans.db"}

KeyNames ==
    DOMAIN FIELDS \cup Measurements \cup SpanOperationBreakdownFields \cup {"foo", "is", "has"}

getFieldDefinition(key) == IF key \in DOMAIN FIELDS THEN FIELDS[key] ELSE Null

\* getFieldDefinition(key)?.kind === FieldKind.FUNCTION
IsFunctionKey(key) ==
    LET def == getFieldDefinition(key) IN def /= Null /\ def.kind = FieldKind.FUNCTION

isMeasurement(key) == key \in Measurements

isSpanOperationBreakdownField(key) == key \in SpanOperationBreakdownFields

measurementType(key) ==
    IF key \in DurationMeasurements THEN "duration" ELSE "number"

\* an aggregate parameter; the fields a kind does not use keep their defaults
ColumnParameter(required, callable, accepts) ==
    [kind |-> "column", required |-> required, callable |-> callable,
     columnTypes |-> accepts, options |-> <<>>, dataType |-> ""]

DropdownParameter(required, options) ==
    [kind |-> "dropdown", required |-> required, callable |-> FALSE,
     columnTypes |-> <<>>, options |-> options, dataType |-> ""]

ValueParameter(required, dataType) ==
    [kind |-> "value", required |-> required, callable |-> FALSE,
     columnTypes |-> <<>>, options |-> <<>>, dataType |-> dataType]

NumericColumnTypes == <<"duration", "number", "integer", "percentage">>

AGGREGATIONS ==
    [count |-> [parameters |-> <<>>],
     failure_rate |-> [parameters |-> <<>>],
     last_seen |-> [parameters |-> <<>>],
     p95 |-> [parameters |-> <<ColumnParameter(FALSE, TRUE, NumericColumnTypes)>>],
     max |-> [parameters |-> <<ColumnParameter(TRUE, FALSE, NumericColumnTypes \o <<"date">>)>>]]

----------------------------------------------------------------------------
(* SearchConfig and the default configuration *)

SearchConfig(textOperatorKeys, durationKeys, percentageKeys, numericKeys, dateKeys,
             booleanKeys, allowBoolean) ==
    [textOperatorKeys |-> textOperatorKeys, durationKeys |-> durationKeys,
     percentageKeys |-> percentageKeys, numericKeys |-> numericKeys,
     dateKeys |-> dateKeys, booleanKeys |-> booleanKeys, allowBoolean |-> allowBoolean]

\* getKeySet: preFilter is the set of keys the optional pre-filter keeps
getKeySet(valueTypes, allowGenericAggregations, preFilter) ==
    {fieldKey \in DOMAIN FIELDS \cap preFilter :
        LET fieldDef == getFieldDefinition(fieldKey)
        IN  /\ fieldDef /= Null
            /\ \/ fieldDef.valueType /= NoValueType /\ fieldDef.valueType \in valueTypes
               \/ /\ allowGenericAggregations
                  /\ fieldDef.kind = FieldKind.FUNCTION
                  /\ fieldDef.valueType = NoValueType}

defaultConfig ==
    SearchConfig(
        getKeySet({FieldValueType.STRING}, FALSE,
                  {k \in DOMAIN FIELDS : getFieldDefinition(k).allowTextOperators}),
        getKeySet({FieldValueType.DURATION}, TRUE, DOMAIN FIELDS),
        getKeySet({FieldValueType.PERCENTAGE}, TRUE, DOMAIN FIELDS),
        getKeySet({FieldValueType.NUMBER, FieldValueType.INTEGER}, TRUE, DOMAIN FIELDS),
        getKeySet({FieldValueType.DATE}, TRUE, DOMAIN FIELDS),
        getKeySet({FieldValueType.BOOLEAN}, TRUE, DOMAIN FIELDS),
        TRUE)

----------------------------------------------------------------------------
(* TokenConverter: key validation *)

isNumeric(cfg, key) ==
    key \in cfg.numericKeys \/ isMeasurement(key) \/ isSpanOperationBreakdownField(key)

isBoolean(cfg, key) == key \in cfg.booleanKeys

isPercentage(cfg, key) == key \in cfg.percentageKeys

isDate(cfg, key) == key \in cfg.dateKeys

isDuration(cfg, key) ==
    \/ key \in cfg.durationKeys
    \/ isSpanOperationBreakdownField(key)
    \/ measurementType(key) = "duration"

\* getKeyName(key) of ./utils, without the aggregateWithArgs option
getKeyName(key) ==
    CASE key.type = Token.KeySimple -> key.value
      [] key.type = Token.KeyExplicitTag -> key.key.value
      [] key.type = Token.KeyAggregate -> key.name.value
      [] OTHER -> ""

----------------------------------------------------------------------------
(* TokenConverter: the token constructors.  `txt` is what this.text()      *)
(* returns: the source text the grammar rule matched.                      *)

defaultTokenFields(txt) == [text |-> txt]

\* listJoiner: a list item is <<space, comma, space, notComma, value>>
listJoiner(item) ==
    [separator |-> item[1].value \o item[2] \o item[3].value, value |-> item[5]]

tokenSpaces(txt, value) ==
    [text |-> defaultTokenFields(txt).text, type |-> Token.Spaces, value |-> value]

tokenFreeText(txt, value, quoted) ==
    [text |-> defaultTokenFields(txt).text, type |-> Token.FreeText,
     value |-> value, quoted |-> quoted]

tokenLogicGroup(txt, inner) ==
    [text |-> defaultTokenFields(txt).text, type |-> Token.LogicGroup, inner |-> inner]

tokenLogicBoolean(txt, bool) ==
    [text |-> defaultTokenFields(txt).text, type |-> Token.LogicBoolean, value |-> bool]

tokenKeySimple(txt, value, quoted) ==
    [text |-> defaultTokenFields(txt).text, type |-> Token.KeySimple,
     value |-> value, quoted |-> quoted]

tokenKeyExplicitTag(txt, prefix, key) ==
    [text |-> defaultTokenFields(txt).text, type |-> Token.KeyExplicitTag,
     prefix |-> prefix, key |-> key]

tokenKeyAggregateParam(txt, value, quoted) ==
    [text |-> defaultTokenFields(txt).text, type |-> Token.KeyAggregateParam,
     value |-> value, quoted |-> quoted]

tokenKeyAggregate(txt, name, args, argsSpaceBefore, argsSpaceAfter) ==
    [text |-> defaultTokenFields(txt).text, type |-> Token.KeyAggregate,
     name |-> name, args |-> args,
     argsSpaceBefore |-> argsSpaceBefore, argsSpaceAfter |-> argsSpaceAfter]

tokenKeyAggregateArgs(txt, arg1, args) ==
    [text |-> defaultTokenFields(txt).text, type |-> Token.KeyAggregateArgs,
     args |-> <<[separator |-> "", value |-> arg1]>>
              \o [i \in 1..Len(args) |-> listJoiner(args[i])]]

\* moment(value) is kept as the string it was made from
tokenValueIso8601Date(txt, value) ==
    [text |-> defaultTokenFields(txt).text, type |-> Token.ValueIso8601Date,
     value |-> value]

tokenValueRelativeDate(txt, value, sign, unit) ==
    [text |-> defaultTokenFields(txt).text, type |-> Token.ValueRelativeDate,
     value |-> Number(value), sign |-> sign, unit |-> unit]

tokenValueDuration(txt, value, unit) ==
    [text |-> defaultTokenFields(txt).text, type |-> Token.ValueDuration,
     value |-> Number(value), unit |-> unit]

tokenValuePercentage(txt, value) ==
    [text |-> defaultTokenFields(txt).text, type |-> Token.ValuePercentage,
     value |-> Number(value)]

\* tokenValueBoolean comparing the raw token without lower-casing it
tokenValueBoolean_caseSensitive(txt, value) ==
    [text |-> defaultTokenFields(txt).text, type |-> Token.ValueBoolean,
     value |-> value \in {<<"1">>, <<"t", "r", "u", "e">>}]

tokenValueBoolean(txt, value) ==
    [text |-> defaultTokenFields(txt).text, type |-> Token.ValueBoolean,
     value |-> toLowerCase(value) \in {<<"1">>, <<"t", "r", "u", "e">>}]

\* numberUnits[unit] ?? 1
UnitMultiplier(unit) ==
    IF unit \in DOMAIN numberUnits THEN numberUnits[unit] ELSE 1

tokenValueNumber(txt, value, unit) ==
    [text |-> defaultTokenFields(txt).text, type |-> Token.ValueNumber,
     value |-> value,
     rawValue |-> NumTimes(Number(value), Int2Num(UnitMultiplier(unit))),
     unit |-> unit]

tokenValueNumberList(txt, item1, items) ==
    [text |-> defaultTokenFields(txt).text, type |-> Token.ValueNumberList,
     items |-> <<[separator |-> "", value |-> item1]>>
               \o [i \in 1..Len(items) |-> listJoiner(items[i])]]

tokenValueTextList(txt, item1, items) ==
    [text |-> defaultTokenFields(txt).text, type |-> Token.ValueTextList,
     items |-> <<[separator |-> "", value |-> item1]>>
               \o [i \in 1..Len(items) |-> listJoiner(items[i])]]

tokenValueText(txt, value, quoted) ==
    [text |-> defaultTokenFields(txt).text, type |-> Token.ValueText,
     value |-> value, quoted |-> quoted]

----------------------------------------------------------------------------
(* TokenConverter: the semantic predicates *)

\* key.args?.args of an aggregate key, <<>> when there is none
KeyArgs(key) ==
    IF key.type = Token.KeyAggregate /\ key.args /= Null THEN key.args.args ELSE <<>>

\* !aggregateKey.args?.args
HasNoArgs(key) == ~(key.type = Token.KeyAggregate /\ key.args /= Null)

\* arg?.value?.value ?? ''
ArgValue(arg) == IF arg.value = Null THEN "" ELSE Str(arg.value.value)

\* checkAggregate accepting a duration name or a duration argument
checkAggregate_either(cfg, key) ==
    \/ isDuration(cfg, getKeyName(key))
    \/ \E i \in DOMAIN KeyArgs(key) : isDuration(cfg, ArgValue(KeyArgs(key)[i]))

\* checkAggregate(isDuration)
checkAggregate(cfg, key) ==
    /\ isDuration(cfg, getKeyName(key))
    /\ \/ HasNoArgs(key)
       \/ \E i \in DOMAIN KeyArgs(key) : isDuration(cfg, ArgValue(KeyArgs(key)[i]))

\* predicateFilter checking the function name for the aggregate variants too
predicateFilter_aggregatesChecked(cfg, type, key) ==
    LET keyName == getKeyName(key)
        keyIsAggregate == IsFunctionKey(keyName)
    IN  IF keyIsAggregate
        THEN CASE type = FilterType.AggregateDuration -> checkAggregate(cfg, key)
               [] type = FilterType.AggregateNumeric -> isNumeric(cfg, keyName)
               [] type \in {FilterType.AggregateDate, FilterType.AggregateRelativeDate} ->
                    isDate(cfg, keyName)
               [] type = FilterType.AggregatePercentage -> isPercentage(cfg, keyName)
               [] type = FilterType.Text -> TRUE
               [] OTHER -> FALSE
        ELSE CASE type \in {FilterType.Numeric, FilterType.NumericIn} -> isNumeric(cfg, keyName)
               [] type = FilterType.Duration -> isDuration(cfg, keyName)
               [] type = FilterType.Boolean -> isBoolean(cfg, keyName)
               [] type \in {FilterType.Date, FilterType.RelativeDate,
                            FilterType.SpecificDate} -> isDate(cfg, keyName)
               [] OTHER -> TRUE

\* predicateFilter without the Text case for aggregate keys
predicateFilter_noTextFallback(cfg, type, key) ==
    LET keyName == getKeyName(key)
        keyIsAggregate == IsFunctionKey(keyName)
    IN  IF keyIsAggregate
        THEN CASE type = FilterType.AggregateDuration -> checkAggregate(cfg, key)
               [] type \in {FilterType.AggregateNumeric, FilterType.AggregateDate,
                            FilterType.AggregatePercentage,
                            FilterType.AggregateRelativeDate} -> TRUE
               [] OTHER -> FALSE
        ELSE CASE type \in {FilterType.Numeric, FilterType.NumericIn} -> isNumeric(cfg, keyName)
               [] type = FilterType.Duration -> isDuration(cfg, keyName)
               [] type = FilterType.Boolean -> isBoolean(cfg, keyName)
               [] type \in {FilterType.Date, FilterType.RelativeDate,
                            FilterType.SpecificDate} -> isDate(cfg, keyName)
               [] OTHER -> TRUE

\* predicateFilter strict with function keys about the scalar typed filters only
predicateFilter_functionDefaultAdmits(cfg, type, key) ==
    LET keyName == getKeyName(key)
        keyIsAggregate == IsFunctionKey(keyName)
    IN  IF keyIsAggregate
        THEN CASE type = FilterType.AggregateDuration -> checkAggregate(cfg, key)
               [] type \in {FilterType.Numeric, FilterType.NumericIn, FilterType.Duration,
                            FilterType.Boolean, FilterType.Date, FilterType.RelativeDate,
                            FilterType.SpecificDate} -> FALSE
               [] OTHER -> TRUE
        ELSE CASE type \in {FilterType.Numeric, FilterType.NumericIn} -> isNumeric(cfg, keyName)
               [] type = FilterType.Duration -> isDuration(cfg, keyName)
               [] type = FilterType.Boolean -> isBoolean(cfg, keyName)
               [] type \in {FilterType.Date, FilterType.RelativeDate,
                            FilterType.SpecificDate} -> isDate(cfg, keyName)
               [] OTHER -> TRUE

\* predicateFilter without the NumericIn case label: lists fall to the default
predicateFilter_numericInUnchecked(cfg, type, key) ==
    LET keyName == getKeyName(key)
        keyIsAggregate == IsFunctionKey(keyName)
    IN  IF keyIsAggregate
        THEN CASE type = FilterType.AggregateDuration -> checkAggregate(cfg, key)
               [] type \in {FilterType.AggregateNumeric, FilterType.AggregateDate,
                            FilterType.AggregatePercentage,
                            FilterType.AggregateRelativeDate} -> TRUE
               [] type = FilterType.Text -> TRUE
               [] OTHER -> FALSE
        ELSE CASE type = FilterType.Numeric -> isNumeric(cfg, keyName)
               [] type = FilterType.Duration -> isDuration(cfg, keyName)
               [] type = FilterType.Boolean -> isBoolean(cfg, keyName)
               [] type \in {FilterType.Date, FilterType.RelativeDate,
                            FilterType.SpecificDate} -> isDate(cfg, keyName)
               [] OTHER -> TRUE

\* predicateFilter with the aggregate switch falling through to the typed
\* switch instead of refusing
predicateFilter_lenientAggregates(cfg, type, key) ==
    LET keyName == getKeyName(key)
        keyIsAggregate == IsFunctionKey(keyName)
    IN  IF keyIsAggregate /\ type = FilterType.AggregateDuration
        THEN checkAggregate(cfg, key)
        ELSE IF keyIsAggregate
                /\ type \in {FilterType.AggregateNumeric, FilterType.AggregateDate,
                             FilterType.AggregatePercentage,
                             FilterType.AggregateRelativeDate, FilterType.Text}
        THEN TRUE
        ELSE CASE type \in {FilterType.Numeric, FilterType.NumericIn} -> isNumeric(cfg, keyName)
               [] type = FilterType.Duration -> isDuration(cfg, keyName)
               [] type = FilterType.Boolean -> isBoolean(cfg, keyName)
               [] type \in {FilterType.Date, FilterType.RelativeDate,
                            FilterType.SpecificDate} -> isDate(cfg, keyName)
               [] OTHER -> TRUE

predicateFilter(cfg, type, key) ==
    LET keyName == getKeyName(key)
        keyIsAggregate == IsFunctionKey(keyName)
    IN  IF keyIsAggregate
        THEN CASE type = FilterType.AggregateDuration -> checkAggregate(cfg, key)
               [] type \in {FilterType.AggregateNumeric, FilterType.AggregateDate,
                            FilterType.AggregatePercentage,
                            FilterType.AggregateRelativeDate} -> TRUE
               [] type = FilterType.Text -> TRUE
               [] OTHER -> FALSE
        ELSE CASE type \in {FilterType.Numeric, FilterType.NumericIn} -> isNumeric(cfg, keyName)
               [] type = FilterType.Duration -> isDuration(cfg, keyName)
               [] type = FilterType.Boolean -> isBoolean(cfg, keyName)
               [] type \in {FilterType.Date, FilterType.RelativeDate,
                            FilterType.SpecificDate} -> isDate(cfg, keyName)
               [] OTHER -> TRUE

\* predicateTextOperator asking the field catalog instead of the configuration
predicateTextOperator_byCatalog(cfg, key) ==
    /\ getFieldDefinition(getKeyName(key)) /= Null
    /\ getFieldDefinition(getKeyName(key)).allowTextOperators

predicateTextOperator(cfg, key) == getKeyName(key) \in cfg.textOperatorKeys

----------------------------------------------------------------------------
(* The post-parse validator *)

Invalid(reason) == [reason |-> reason]

InvalidExpecting(reason, expectedType) == [reason |-> reason, expectedType |-> expectedType]

RECURSIVE JoinStrings(_, _)
JoinStrings(strs, sep) ==
    IF strs = <<>> THEN ""
    ELSE IF Len(strs) = 1 THEN strs[1]
    ELSE strs[1] \o sep \o JoinStrings(Tail(strs), sep)

\* the pattern without its ^ alternative: /[^\\]"/
HasUnescapedQuote_noStart(cs) ==
    \E i \in 2..Len(cs) : cs[i] = "\"" /\ cs[i - 1] /= "\\"

\* /(^|[^\\])"/.test(cs): a double quote at the start or after a character
\* that is not a backslash
HasUnescapedQuote(cs) ==
    \E i \in 1..Len(cs) : cs[i] = "\"" /\ (i = 1 \/ cs[i - 1] /= "\\")

checkInvalidTextValue(value) ==
    IF ~value.quoted /\ HasUnescapedQuote(value.value)
    THEN Invalid("Quotes must enclose text or be escaped")
    ELSE IF ~value.quoted /\ value.value = <<>>
    THEN Invalid("Filter must have a value")
    ELSE Null

\* checkInvalidInFilter asking that every item be missing
checkInvalidInFilter_every(value) ==
    IF \A i \in DOMAIN value.items : value.items[i].value = Null
    THEN Invalid("Lists should not have empty values")
    ELSE Null

checkInvalidInFilter(value) ==
    IF \E i \in DOMAIN value.items : value.items[i].value = Null
    THEN Invalid("Lists should not have empty values")
    ELSE Null

\* the date reason ends with two examples made from the current time
InvalidDateReason ==
    "Invalid date format. Expected +/-duration (e.g. +1h) or ISO 8601-like (e.g. %s or %s)"

\* checkInvalidTextFilter reporting a missing value before the key's type
checkInvalidTextFilter_emptyFirst(cfg, key, value) ==
    IF key.type = Token.KeyExplicitTag \/ (~value.quoted /\ value.value = <<>>)
    THEN checkInvalidTextValue(value)
    ELSE
    LET keyName == getKeyName(key)
        keyIsAggregate == IsFunctionKey(keyName)
    IN  IF ~keyIsAggregate /\ isDuration(cfg, keyName)
        THEN InvalidExpecting(
                "Invalid duration. Expected number followed by duration unit suffix",
                <<FilterType.Duration>>)
        ELSE IF ~keyIsAggregate /\ isDate(cfg, keyName)
        THEN InvalidExpecting(InvalidDateReason,
                <<FilterType.Date, FilterType.SpecificDate, FilterType.RelativeDate>>)
        ELSE IF ~keyIsAggregate /\ isBoolean(cfg, keyName)
        THEN InvalidExpecting("Invalid boolean. Expected true, 1, false, or 0.",
                <<FilterType.Boolean>>)
        ELSE IF ~keyIsAggregate /\ isNumeric(cfg, keyName)
        THEN InvalidExpecting(
                "Invalid number. Expected number then optional k, m, or b suffix (e.g. 500k)",
                <<FilterType.Numeric, FilterType.NumericIn>>)
        ELSE checkInvalidTextValue(value)

\* checkInvalidTextFilter without the early return for explicit tag keys
checkInvalidTextFilter_noExplicitTagTest(cfg, key, value) ==
    LET keyName == getKeyName(key)
        keyIsAggregate == IsFunctionKey(keyName)
    IN  IF ~keyIsAggregate /\ isDuration(cfg, keyName)
        THEN InvalidExpecting(
                "Invalid duration. Expected number followed by duration unit suffix",
                <<FilterType.Duration>>)
        ELSE IF ~keyIsAggregate /\ isDate(cfg, keyName)
        THEN InvalidExpecting(InvalidDateReason,
                <<FilterType.Date, FilterType.SpecificDate, FilterType.RelativeDate>>)
        ELSE IF ~keyIsAggregate /\ isBoolean(cfg, keyName)
        THEN InvalidExpecting("Invalid boolean. Expected true, 1, false, or 0.",
                <<FilterType.Boolean>>)
        ELSE IF ~keyIsAggregate /\ isNumeric(cfg, keyName)
        THEN InvalidExpecting(
                "Invalid number. Expected number then optional k, m, or b suffix (e.g. 500k)",
                <<FilterType.Numeric, FilterType.NumericIn>>)
        ELSE checkInvalidTextValue(value)

\* checkInvalidTextFilter looking at the value before the key's type
checkInvalidTextFilter_valueFirst(cfg, key, value) ==
    IF key.type = Token.KeyExplicitTag \/ checkInvalidTextValue(value) /= Null
    THEN checkInvalidTextValue(value)
    ELSE
    LET keyName == getKeyName(key)
        keyIsAggregate == IsFunctionKey(keyName)
    IN  IF ~keyIsAggregate /\ isDuration(cfg, keyName)
        THEN InvalidExpecting(
                "Invalid duration. Expected number followed by duration unit suffix",
                <<FilterType.Duration>>)
        ELSE IF ~keyIsAggregate /\ isDate(cfg, keyName)
        THEN InvalidExpecting(InvalidDateReason,
                <<FilterType.Date, FilterType.SpecificDate, FilterType.RelativeDate>>)
        ELSE IF ~keyIsAggregate /\ isBoolean(cfg, keyName)
        THEN InvalidExpecting("Invalid boolean. Expected true, 1, false, or 0.",
                <<FilterType.Boolean>>)
        ELSE IF ~keyIsAggregate /\ isNumeric(cfg, keyName)
        THEN InvalidExpecting(
                "Invalid number. Expected number then optional k, m, or b suffix (e.g. 500k)",
                <<FilterType.Numeric, FilterType.NumericIn>>)
        ELSE checkInvalidTextValue(value)

\* checkInvalidTextFilter without the test that lets function keys through
checkInvalidTextFilter_noAggregateTest(cfg, key, value) ==
    IF key.type = Token.KeyExplicitTag THEN checkInvalidTextValue(value)
    ELSE
    LET keyName == getKeyName(key)
    IN  IF isDuration(cfg, keyName)
        THEN InvalidExpecting(
                "Invalid duration. Expected number followed by duration unit suffix",
                <<FilterType.Duration>>)
        ELSE IF isDate(cfg, keyName)
        THEN InvalidExpecting(InvalidDateReason,
                <<FilterType.Date, FilterType.SpecificDate, FilterType.RelativeDate>>)
        ELSE IF isBoolean(cfg, keyName)
        THEN InvalidExpecting("Invalid boolean. Expected true, 1, false, or 0.",
                <<FilterType.Boolean>>)
        ELSE IF isNumeric(cfg, keyName)
        THEN InvalidExpecting(
                "Invalid number. Expected number then optional k, m, or b suffix (e.g. 500k)",
                <<FilterType.Numeric, FilterType.NumericIn>>)
        ELSE checkInvalidTextValue(value)

checkInvalidTextFilter(cfg, key, value) ==
    IF key.type = Token.KeyExplicitTag THEN checkInvalidTextValue(value)
    ELSE
    LET keyName == getKeyName(key)
        keyIsAggregate == IsFunctionKey(keyName)
    IN  IF ~keyIsAggregate /\ isDuration(cfg, keyName)
        THEN InvalidExpecting(
                "Invalid duration. Expected number followed by duration unit suffix",
                <<FilterType.Duration>>)
        ELSE IF ~keyIsAggregate /\ isDate(cfg, keyName)
        THEN InvalidExpecting(InvalidDateReason,
                <<FilterType.Date, FilterType.SpecificDate, FilterType.RelativeDate>>)
        ELSE IF ~keyIsAggregate /\ isBoolean(cfg, keyName)
        THEN InvalidExpecting("Invalid boolean. Expected true, 1, false, or 0.",
                <<FilterType.Boolean>>)
        ELSE IF ~keyIsAggregate /\ isNumeric(cfg, keyName)
        THEN InvalidExpecting(
                "Invalid number. Expected number then optional k, m, or b suffix (e.g. 500k)",
                <<FilterType.Numeric, FilterType.NumericIn>>)
        ELSE checkInvalidTextValue(value)

\* parseFloat skips leading white space
RECURSIVE TrimStart(_)
TrimStart(cs) ==
    IF cs /= <<>> /\ cs[1] \in {" ", "\t", "\n"} THEN TrimStart(Tail(cs)) ELSE cs

\* !isNaN(parseFloat(cs)): after white space and an optional sign, a digit,
\* or a dot and a digit, or the word Infinity
ParsesAsFloat(cs) ==
    LET trimmed == TrimStart(cs)
        body == IF trimmed /= <<>> /\ trimmed[1] \in {"-", "+"} THEN Tail(trimmed)
                ELSE trimmed
    IN  /\ body /= <<>>
        /\ \/ IsDigit(body[1])
           \/ body[1] = "." /\ Len(body) > 1 /\ IsDigit(body[2])
           \/ Len(body) >= 8 /\ SubSeq(body, 1, 8) = <<"I", "n", "f", "i", "n", "i", "t", "y">>

getValueType(key) ==
    IF ParsesAsFloat(key) THEN FieldValueType.NUMBER ELSE FieldValueType.STRING

\* `${definition?.valueType}`
ValueTypeText(definition) ==
    IF definition = Null THEN "undefined"
    ELSE IF definition.valueType = NoValueType THEN "null"
    ELSE definition.valueType

\* parameterDefinition.columnTypes({name, dataType}) for a callable columnTypes:
\* the aggregation's validator accepts the data types it lists
CallColumnTypes(parameterDefinition, name, dataType) ==
    dataType \in Range(parameterDefinition.columnTypes)

validateAggregateParameterColumn(keyName, parameterDefinition, position, parameterValue) ==
    LET definition == getFieldDefinition(keyName)
        columnParameterFieldDefinition == getFieldDefinition(Str(parameterValue))
    IN  IF parameterDefinition.callable
        THEN IF ~CallColumnTypes(parameterDefinition, Str(parameterValue),
                                 ValueTypeText(definition))
             THEN Invalid("Argument " \o ToString(position) \o " is an invalid column type.")
             ELSE Null
        ELSE IF columnParameterFieldDefinition = Null
        THEN Invalid(keyName \o " expects argument " \o ToString(position)
                     \o " to be a column.")
        ELSE IF ~\E i \in DOMAIN parameterDefinition.columnTypes :
                    parameterDefinition.columnTypes[i]
                        = columnParameterFieldDefinition.valueType
        THEN Invalid(keyName \o " expects argument " \o ToString(position)
                     \o " to be a column of type: "
                     \o JoinStrings(parameterDefinition.columnTypes, ", ") \o ".")
        ELSE Null

\* validateAggregateParameter asking for every declared parameter
validateAggregateParameter_allRequired(keyName, parameterDefinition, parameterValue, position, numExpectedArguments) ==
    IF parameterDefinition = Undefined \/ parameterValue = <<>>
    THEN Invalid(keyName \o " is expecting " \o ToString(numExpectedArguments)
                 \o " arguments.")
    ELSE CASE parameterDefinition.kind = "column" ->
                validateAggregateParameterColumn(keyName, parameterDefinition, position,
                                                 parameterValue)
           [] parameterDefinition.kind = "dropdown" ->
                IF ~\E i \in DOMAIN parameterDefinition.options :
                        parameterDefinition.options[i] = Str(parameterValue)
                THEN Invalid(keyName \o " expects argument " \o ToString(position)
                             \o " to be one of: "
                             \o JoinStrings([i \in DOMAIN parameterDefinition.options |->
                                    "'" \o parameterDefinition.options[i] \o "'"], ", "))
                ELSE Null
           [] parameterDefinition.kind = "value" ->
                IF getValueType(parameterValue) /= parameterDefinition.dataType
                THEN Invalid(keyName \o " expects arument " \o ToString(position)
                             \o " to be of type " \o parameterDefinition.dataType)
                ELSE Null
           [] OTHER -> Null

\* a missing parameterValue (undefined) is the empty string: the code only
\* ever tests it with !parameterValue
validateAggregateParameter(keyName, parameterDefinition, parameterValue, position, numExpectedArguments) ==
    IF parameterDefinition = Undefined
       \/ (parameterDefinition.required /\ parameterValue = <<>>)
    THEN Invalid(keyName \o " is expecting " \o ToString(numExpectedArguments)
                 \o " arguments.")
    ELSE IF parameterValue = <<>> THEN Null
    ELSE CASE parameterDefinition.kind = "column" ->
                validateAggregateParameterColumn(keyName, parameterDefinition, position,
                                                 parameterValue)
           [] parameterDefinition.kind = "dropdown" ->
                IF ~\E i \in DOMAIN parameterDefinition.options :
                        parameterDefinition.options[i] = Str(parameterValue)
                THEN Invalid(keyName \o " expects argument " \o ToString(position)
                             \o " to be one of: "
                             \o JoinStrings([i \in DOMAIN parameterDefinition.options |->
                                    "'" \o parameterDefinition.options[i] \o "'"], ", "))
                ELSE Null
           [] parameterDefinition.kind = "value" ->
                IF getValueType(parameterValue) /= parameterDefinition.dataType
                THEN Invalid(keyName \o " expects arument " \o ToString(position)
                             \o " to be of type " \o parameterDefinition.dataType)
                ELSE Null
           [] OTHER -> Null

checkInvalidAggregateFilterValue(cfg, filterType, key, value) ==
    LET keyName == key.name.text
        definition == getFieldDefinition(keyName)
        wrongValueTypeReason ==
            Invalid("'" \o keyName \o "' returns a " \o ValueTypeText(definition)
                    \o "; '" \o value.text \o "' is not valid here.")
    IN  CASE filterType \in {FilterType.AggregateRelativeDate, FilterType.AggregateDate} ->
                IF ~isDate(cfg, keyName) THEN wrongValueTypeReason ELSE Null
          [] filterType = FilterType.AggregateDuration ->
                IF ~isDuration(cfg, keyName) THEN wrongValueTypeReason ELSE Null
          [] filterType = FilterType.AggregatePercentage ->
                IF ~isPercentage(cfg, keyName) THEN wrongValueTypeReason ELSE Null
          [] filterType = FilterType.AggregateNumeric ->
                IF ~isNumeric(cfg, keyName) THEN wrongValueTypeReason ELSE Null
          [] OTHER -> Null

Max(a, b) == IF a >= b THEN a ELSE b

\* the loop over the argument positions, from argIndex on: the first reason wins
RECURSIVE ValidateArguments(_, _, _, _)
ValidateArguments(keyName, parameters, args, argIndex) ==
    IF argIndex >= Max(Len(parameters), Len(args)) THEN Null
    ELSE LET parameterDefinition ==
                IF argIndex + 1 <= Len(parameters) THEN parameters[argIndex + 1]
                ELSE Undefined
             parameterValue ==
                IF argIndex + 1 <= Len(args) /\ args[argIndex + 1].value /= Null
                THEN args[argIndex + 1].value.value
                ELSE <<>>
             reason == validateAggregateParameter(keyName, parameterDefinition,
                            parameterValue, argIndex + 1, Len(parameters))
         IN  IF reason /= Null THEN reason
             ELSE ValidateArguments(keyName, parameters, args, argIndex + 1)

\* checkInvalidAggregateFilter validating the arguments before the value
checkInvalidAggregateFilter_argumentsFirst(cfg, filterType, key, value) ==
    LET keyName == key.name.text
        invalidValueReason == checkInvalidAggregateFilterValue(cfg, filterType, key, value)
        invalidArgumentReason ==
            IF keyName \notin DOMAIN AGGREGATIONS THEN Null
            ELSE ValidateArguments(keyName, AGGREGATIONS[keyName].parameters, KeyArgs(key), 0)
    IN  IF invalidArgumentReason /= Null THEN invalidArgumentReason
        ELSE invalidValueReason

checkInvalidAggregateFilter(cfg, filterType, key, value) ==
    LET keyName == key.name.text
        invalidValueReason == checkInvalidAggregateFilterValue(cfg, filterType, key, value)
    IN  IF invalidValueReason /= Null THEN invalidValueReason
        ELSE IF keyName \notin DOMAIN AGGREGATIONS THEN Null
        ELSE ValidateArguments(keyName, AGGREGATIONS[keyName].parameters, KeyArgs(key), 0)

\* checkInvalidFilter checking the key of a typed filter once more
checkInvalidFilter_keyRechecked(cfg, filter, key, value) ==
    IF filter = FilterType.Text THEN checkInvalidTextFilter(cfg, key, value)
    ELSE IF filter = FilterType.Is \/ filter = FilterType.Has
    THEN checkInvalidTextValue(value)
    ELSE IF filter \in {FilterType.TextIn, FilterType.NumericIn}
    THEN checkInvalidInFilter(value)
    ELSE IF filter \in AggregateFilter
    THEN checkInvalidAggregateFilter(cfg, filter, key, value)
    ELSE IF ~predicateFilter(cfg, filter, key)
    THEN InvalidExpecting("Invalid key for this filter", <<filter>>)
    ELSE Null

checkInvalidFilter(cfg, filter, key, value) ==
    IF filter = FilterType.Text THEN checkInvalidTextFilter(cfg, key, value)
    ELSE IF filter = FilterType.Is \/ filter = FilterType.Has
    THEN checkInvalidTextValue(value)
    ELSE IF filter \in {FilterType.TextIn, FilterType.NumericIn}
    THEN checkInvalidInFilter(value)
    ELSE IF filter \in AggregateFilter
    THEN checkInvalidAggregateFilter(cfg, filter, key, value)
    ELSE Null

\* tokenFilter storing the negation flag inverted
tokenFilter_flipNegated(txt, cfg, filter, key, value, operator, negated) ==
    [text |-> defaultTokenFields(txt).text,
     type |-> Token.Filter,
     filter |-> filter,
     key |-> key,
     value |-> value,
     negated |-> ~negated,
     operator |-> IF operator = NoOperator THEN TermOperator.Default ELSE operator,
     invalid |-> checkInvalidFilter(cfg, filter, key, value)]

tokenFilter(txt, cfg, filter, key, value, operator, negated) ==
    [text |-> defaultTokenFields(txt).text,
     type |-> Token.Filter,
     filter |-> filter,
     key |-> key,
     value |-> value,
     negated |-> negated,
     operator |-> IF operator = NoOperator THEN TermOperator.Default ELSE operator,
     invalid |-> checkInvalidFilter(cfg, filter, key, value)]

----------------------------------------------------------------------------
(* The grammar (grammar.pegjs), at the level of lexemes.  A raw value is    *)
(* the source text after the operator together with the value formats it   *)
(* matches; every raw value also reads as a text value.                    *)

RawValue(chars, inner, quoted, forms, num, sign, unit, items) ==
    [chars |-> chars, inner |-> inner, quoted |-> quoted, forms |-> forms,
     num |-> num, sign |-> sign, unit |-> unit, items |-> items]

PlainRaw(chars, forms, num, sign, unit) ==
    RawValue(chars, chars, FALSE, forms, num, sign, unit, <<>>)

RawIso == PlainRaw(<<"2", "0", "2", "0", "-", "0", "1", "-", "0", "2">>, {"iso"}, <<>>, "", "")
RawRel == PlainRaw(<<"-", "2", "4", "h">>, {"rel"}, <<"2", "4">>, "-", "h")
RawDur == PlainRaw(<<"5", "m", "s">>, {"dur"}, <<"5">>, "", "ms")
RawPct == PlainRaw(<<"5", "0", "%">>, {"pct"}, <<"5", "0">>, "", "")
RawTrue == PlainRaw(<<"T", "R", "U", "E">>, {"bool"}, <<>>, "", "")
RawOne == PlainRaw(<<"1">>, {"bool", "num"}, <<"1">>, "", "")
RawNum == PlainRaw(<<"2", ".", "5", "k">>, {"num"}, <<"2", ".", "5">>, "", "k")
RawWord == PlainRaw(<<"a", "b", "c">>, {}, <<>>, "", "")
RawEmpty == PlainRaw(<<>>, {}, <<>>, "", "")
RawStrayQuote == PlainRaw(<<"a", "\"", "b">>, {}, <<>>, "", "")
RawQuoted == RawValue(<<"\"", "a", "b", "\"">>, <<"a", "b">>, TRUE, {}, <<>>, "", "", <<>>)
RawNumList ==
    RawValue(<<"[", "1", ",", "2", "k", "]">>, <<"[", "1", ",", "2", "k", "]">>, FALSE,
             {"numlist", "textlist"}, <<>>, "", "",
             <<PlainRaw(<<"1">>, {"num"}, <<"1">>, "", ""),
               PlainRaw(<<"2", "k">>, {"num"}, <<"2">>, "", "k")>>)
RawTextList ==
    RawValue(<<"[", "a", ",", "b", "]">>, <<"[", "a", ",", "b", "]">>, FALSE,
             {"textlist"}, <<>>, "", "",
             <<PlainRaw(<<"a">>, {}, <<>>, "", ""), PlainRaw(<<"b">>, {}, <<>>, "", "")>>)
\* a list with a missing item: [a,]
RawGapList ==
    RawValue(<<"[", "a", ",", "]">>, <<"[", "a", ",", "]">>, FALSE,
             {"textlist"}, <<>>, "", "",
             <<PlainRaw(<<"a">>, {}, <<>>, "", ""), Null>>)

RawValues ==
    {RawIso, RawRel, RawDur, RawPct, RawTrue, RawOne, RawNum, RawWord, RawEmpty,
     RawStrayQuote, RawQuoted, RawNumList, RawTextList, RawGapList}

\* the characters of an operator
OperatorChars(op) ==
    CASE op = ">=" -> <<">", "=">> [] op = "<=" -> <<"<", "=">>
      [] op = ">" -> <<">">> [] op = "<" -> <<"<">> [] op = "=" -> <<"=">>
      [] op = "!=" -> <<"!", "=">> [] OTHER -> <<>>

OperatorText(op) == Str(OperatorChars(op))

\* search_key
SimpleKey(name) == tokenKeySimple(name, name, FALSE)

\* explicit_tag_key
ExplicitTagKey(name) ==
    tokenKeyExplicitTag("tags[" \o name \o "]", "tags", SimpleKey(name))

\* aggregate_key: name(arg, ...), the arguments given by their characters
AggregateParam(chars) == tokenKeyAggregateParam(Str(chars), chars, FALSE)

NoSpace == tokenSpaces("", "")

RECURSIVE ArgsText(_)
ArgsText(argChars) ==
    IF argChars = <<>> THEN ""
    ELSE IF Len(argChars) = 1 THEN Str(argChars[1])
    ELSE Str(argChars[1]) \o "," \o ArgsText(Tail(argChars))

AggregateKey(name, argChars) ==
    tokenKeyAggregate(
        name \o "(" \o ArgsText(argChars) \o ")",
        SimpleKey(name),
        IF argChars = <<>> THEN Null
        ELSE tokenKeyAggregateArgs(ArgsText(argChars), AggregateParam(argChars[1]),
                [i \in 1..(Len(argChars) - 1) |->
                    <<NoSpace, ",", NoSpace, Undefined, AggregateParam(argChars[i + 1])>>]),
        NoSpace, NoSpace)

\* the source of a filter: [!] key : [operator] value
FilterSource(negation, key, operator, raw) ==
    [negation |-> negation, key |-> key, operator |-> operator, raw |-> raw]

FilterSourceText(src) ==
    (IF src.negation THEN "!" ELSE "") \o src.key.text \o ":"
        \o OperatorText(src.operator) \o Str(src.raw.chars)

\* the value nodes the value rules build from a raw value
NumberItem(raw) ==
    IF raw = Null THEN Null ELSE tokenValueNumber(Str(raw.chars), raw.num, raw.unit)

TextItem(raw) ==
    IF raw = Null THEN Null ELSE tokenValueText(Str(raw.chars), raw.inner, raw.quoted)

ListText(raw) == Str(raw.chars)

ValueOfForm(form, raw) ==
    CASE form = "iso" -> tokenValueIso8601Date(Str(raw.chars), Str(raw.chars))
      [] form = "rel" -> tokenValueRelativeDate(Str(raw.chars), raw.num, raw.sign, raw.unit)
      [] form = "dur" -> tokenValueDuration(Str(raw.chars), raw.num, raw.unit)
      [] form = "pct" -> tokenValuePercentage(Str(raw.chars), raw.num)
      [] form = "bool" -> tokenValueBoolean(Str(raw.chars), raw.chars)
      [] form = "num" -> tokenValueNumber(Str(raw.chars), raw.num, raw.unit)
      [] form = "numlist" ->
            tokenValueNumberList(ListText(raw), NumberItem(raw.items[1]),
                [i \in 1..(Len(raw.items) - 1) |->
                    <<NoSpace, ",", NoSpace, Undefined, NumberItem(raw.items[i + 1])>>])
      [] form = "textlist" ->
            tokenValueTextList(ListText(raw), TextItem(raw.items[1]),
                [i \in 1..(Len(raw.items) - 1) |->
                    <<NoSpace, ",", NoSpace, Undefined, TextItem(raw.items[i + 1])>>])

\* search_value over the operator characters the text rule did not take
\* and the raw value
TextValue(leftover, raw) ==
    IF leftover = <<>>
    THEN tokenValueText(Str(raw.chars), raw.inner, raw.quoted)
    ELSE tokenValueText(Str(leftover \o raw.chars), leftover \o raw.chars, FALSE)

\* The filter rule: the variants in the grammar's order; the first whose
\* shape and predicate admit the source builds the node.  The date variants
\* take no negation; Text is the catch-all, and takes the operator only
\* when predicateTextOperator admits it: otherwise the operator characters
\* are part of the value.
FilterRule(cfg, src) ==
    LET key    == src.key
        raw    == src.raw
        op     == src.operator
        noOp   == src.operator = NoOperator
        neg    == src.negation
        simple == src.key.type = Token.KeySimple
        aggr   == src.key.type = Token.KeyAggregate
        Typed(filter, form, operator, negated) ==
            [filter |-> filter, form |-> form, leftover |-> <<>>,
             operator |-> operator, negated |-> negated]
        Textual(filter, leftover, operator) ==
            [filter |-> filter, form |-> "text", leftover |-> leftover,
             operator |-> operator, negated |-> neg]
        variant ==
            IF simple /\ ~neg /\ ~noOp /\ "iso" \in raw.forms
               /\ predicateFilter(cfg, FilterType.Date, key)
            THEN Typed(FilterType.Date, "iso", op, FALSE)
            ELSE IF simple /\ ~neg /\ noOp /\ "iso" \in raw.forms
               /\ predicateFilter(cfg, FilterType.SpecificDate, key)
            THEN Typed(FilterType.SpecificDate, "iso", NoOperator, FALSE)
            ELSE IF simple /\ ~neg /\ noOp /\ "rel" \in raw.forms
               /\ predicateFilter(cfg, FilterType.RelativeDate, key)
            THEN Typed(FilterType.RelativeDate, "rel", NoOperator, FALSE)
            ELSE IF simple /\ "dur" \in raw.forms
               /\ predicateFilter(cfg, FilterType.Duration, key)
            THEN Typed(FilterType.Duration, "dur", op, neg)
            ELSE IF simple /\ noOp /\ "bool" \in raw.forms
               /\ predicateFilter(cfg, FilterType.Boolean, key)
            THEN Typed(FilterType.Boolean, "bool", NoOperator, neg)
            ELSE IF simple /\ noOp /\ "numlist" \in raw.forms
               /\ predicateFilter(cfg, FilterType.NumericIn, key)
            THEN Typed(FilterType.NumericIn, "numlist", NoOperator, neg)
            ELSE IF simple /\ "num" \in raw.forms
               /\ predicateFilter(cfg, FilterType.Numeric, key)
            THEN Typed(FilterType.Numeric, "num", op, neg)
            ELSE IF aggr /\ "dur" \in raw.forms
               /\ predicateFilter(cfg, FilterType.AggregateDuration, key)
            THEN Typed(FilterType.AggregateDuration, "dur", op, neg)
            ELSE IF aggr /\ "num" \in raw.forms
               /\ predicateFilter(cfg, FilterType.AggregateNumeric, key)
            THEN Typed(FilterType.AggregateNumeric, "num", op, neg)
            ELSE IF aggr /\ "pct" \in raw.forms
               /\ predicateFilter(cfg, FilterType.AggregatePercentage, key)
            THEN Typed(FilterType.AggregatePercentage, "pct", op, neg)
            ELSE IF aggr /\ "iso" \in raw.forms
               /\ predicateFilter(cfg, FilterType.AggregateDate, key)
            THEN Typed(FilterType.AggregateDate, "iso", op, neg)
            ELSE IF aggr /\ "rel" \in raw.forms
               /\ predicateFilter(cfg, FilterType.AggregateRelativeDate, key)
            THEN Typed(FilterType.AggregateRelativeDate, "rel", op, neg)
            ELSE IF simple /\ noOp /\ key.value = "has"
            THEN Textual(FilterType.Has, <<>>, NoOperator)
            ELSE IF simple /\ noOp /\ key.value = "is"
            THEN Textual(FilterType.Is, <<>>, NoOperator)
            ELSE IF ~aggr /\ noOp /\ "textlist" \in raw.forms
            THEN Typed(FilterType.TextIn, "textlist", NoOperator, neg)
            ELSE IF ~noOp /\ predicateTextOperator(cfg, key)
            THEN Textual(FilterType.Text, <<>>, op)
            ELSE Textual(FilterType.Text, OperatorChars(op), NoOperator)
    IN  With(variant, LAMBDA v :
            tokenFilter(FilterSourceText(src), cfg, v.filter, src.key,
                        IF v.form = "text" THEN TextValue(v.leftover, src.raw)
                        ELSE ValueOfForm(v.form, src.raw),
                        v.operator, v.negated))

----------------------------------------------------------------------------
(* The grammar's top level: a query is a sequence of lexemes *)

Lexeme(cls, text, src) == [cls |-> cls, text |-> text, src |-> src]

SpaceLexeme == Lexeme("space", " ", Null)
WordLexeme == Lexeme("word", "abc", Null)
QuotedLexeme == Lexeme("quoted", "\"a b\"", Null)
\* a quote that is never closed
OpenQuoteLexeme == Lexeme("openQuote", "\"ab", Null)
AndLexeme == Lexeme("boolean", "AND", Null)
OrLexeme == Lexeme("boolean", "or", Null)
OpenParen == Lexeme("openParen", "(", Null)
ClosedParen == Lexeme("closedParen", ")", Null)
FilterLexeme(src) == Lexeme("filter", FilterSourceText(src), src)

\* the text of the lexemes i .. j
RECURSIVE LexText(_, _, _)
LexText(lexs, i, j) ==
    IF i > j THEN "" ELSE lexs[i].text \o LexText(lexs, i + 1, j)

\* text().toUpperCase() of a boolean operator
UpperBoolean(text) == IF text \in {"AND", "and"} THEN BooleanOperator.And ELSE BooleanOperator.Or

ParseFailure == [ok |-> FALSE, terms |-> <<>>, next |-> 0]

\* the end of the run of spaces that starts at i
RECURSIVE SpacesEnd(_, _)
SpacesEnd(lexs, i) ==
    IF i + 1 <= Len(lexs) /\ lexs[i + 1].cls = "space" THEN SpacesEnd(lexs, i + 1) ELSE i

\* one term that is a single lexeme
SingleTerm(cfg, lex) ==
    CASE lex.cls = "word" -> tokenFreeText(lex.text, lex.text, FALSE)
      [] lex.cls = "quoted" -> tokenFreeText(lex.text, "a b", TRUE)
      [] lex.cls = "boolean" ->
            IF cfg.allowBoolean THEN tokenLogicBoolean(lex.text, UpperBoolean(lex.text))
            ELSE tokenFreeText(lex.text, lex.text, FALSE)
      [] lex.cls = "filter" -> FilterRule(cfg, lex.src)

\* term, then the terms that follow it
Followed(term, rest) ==
    IF ~rest.ok THEN ParseFailure
    ELSE [ok |-> TRUE, terms |-> <<term>> \o rest.terms, next |-> rest.next]

\* the terms from lexeme i up to the end of the input or an unmatched ")"
RECURSIVE ParseTerms(_, _, _)
ParseTerms(cfg, lexs, i) ==
    IF i > Len(lexs) \/ lexs[i].cls = "closedParen"
    THEN [ok |-> TRUE, terms |-> <<>>, next |-> i]
    ELSE IF lexs[i].cls = "openQuote" THEN ParseFailure
    ELSE IF lexs[i].cls = "openParen"
    THEN With(ParseTerms(cfg, lexs, i + 1), LAMBDA inner :
            IF ~inner.ok \/ inner.next > Len(lexs) THEN ParseFailure
            ELSE Followed(tokenLogicGroup(LexText(lexs, i, inner.next), inner.terms),
                          ParseTerms(cfg, lexs, inner.next + 1)))
    ELSE IF lexs[i].cls = "space"
    THEN With(SpacesEnd(lexs, i), LAMBDA last :
            Followed(tokenSpaces(LexText(lexs, i, last), LexText(lexs, i, last)),
                     ParseTerms(cfg, lexs, last + 1)))
    ELSE Followed(SingleTerm(cfg, lexs[i]), ParseTerms(cfg, lexs, i + 1))

\* grammar.parse(query, options): the terms, or an error is thrown
GrammarParse(cfg, lexs) ==
    With(ParseTerms(cfg, lexs, 1), LAMBDA r :
        IF r.ok /\ r.next > Len(lexs)
        THEN [threw |-> FALSE, terms |-> r.terms]
        ELSE [threw |-> TRUE, terms |-> <<>>])

\* the query string the lexemes spell
QueryText(lexs) == LexText(lexs, 1, Len(lexs))

----------------------------------------------------------------------------
(* The public API *)

ParseResult(terms) == [type |-> "parseResult", terms |-> terms]

\* parseSearch without the try/catch: a grammar error leaves it
parseSearch_noCatch(lexs) ==
    With(GrammarParse(defaultConfig, lexs), LAMBDA g :
        IF g.threw THEN [value |-> Null, threw |-> TRUE, escaped |-> TRUE]
        ELSE [value |-> ParseResult(g.terms), threw |-> FALSE, escaped |-> FALSE])

\* parseSearch: what it returns, whether the grammar threw, and whether an
\* exception leaves it
parseSearch(lexs) ==
    With(GrammarParse(defaultConfig, lexs), LAMBDA g :
        IF g.threw THEN [value |-> Null, threw |-> TRUE, escaped |-> FALSE]
        ELSE [value |-> ParseResult(g.terms), threw |-> FALSE, escaped |-> FALSE])

\* parsedTerms.map(p => p.text).join(separator)
RECURSIVE JoinTexts(_, _)
JoinTexts(terms, separator) ==
    IF terms = <<>> THEN ""
    ELSE IF Len(terms) = 1 THEN terms[1].text
    ELSE terms[1].text \o separator \o JoinTexts(Tail(terms), separator)

\* joinQuery adding the leading space before it looks whether there are terms
joinQuery_leadsEmpty(parsedTerms, leadingSpace, additionalSpaceBetween) ==
    (IF leadingSpace THEN " " ELSE "")
    \o (IF parsedTerms \in {Null, Undefined} \/ Len(parsedTerms.terms) = 0 THEN ""
        ELSE IF Len(parsedTerms.terms) = 1 THEN parsedTerms.terms[1].text
        ELSE JoinTexts(parsedTerms.terms, IF additionalSpaceBetween THEN " " ELSE ""))

\* joinQuery putting a space between the terms whatever the flag
joinQuery_alwaysSpaced(parsedTerms, leadingSpace, additionalSpaceBetween) ==
    IF parsedTerms \in {Null, Undefined} \/ Len(parsedTerms.terms) = 0 THEN ""
    ELSE (IF leadingSpace THEN " " ELSE "")
         \o (IF Len(parsedTerms.terms) = 1 THEN parsedTerms.terms[1].text
             ELSE JoinTexts(parsedTerms.terms, " "))

\* an omitted flag is undefined, which is as false
joinQuery(parsedTerms, leadingSpace, additionalSpaceBetween) ==
    IF parsedTerms \in {Null, Undefined} \/ Len(parsedTerms.terms) = 0 THEN ""
    ELSE (IF leadingSpace THEN " " ELSE "")
         \o (IF Len(parsedTerms.terms) = 1 THEN parsedTerms.terms[1].text
             ELSE JoinTexts(parsedTerms.terms, IF additionalSpaceBetween THEN " " ELSE ""))

----------------------------------------------------------------------------
(* Specification Spec: a query is typed lexeme by lexeme; after every      *)
(* change it is parsed with parseSearch and the result joined again.       *)

NoCall == [fn |-> "none"]

\* the filters typed into the query
QueryFilters ==
    {FilterSource(FALSE, SimpleKey("message"), NoOperator, RawWord),
     FilterSource(FALSE, SimpleKey("duration"), NoOperator, RawWord),
     FilterSource(TRUE, SimpleKey("timestamp"), ">", RawIso),
     FilterSource(FALSE, SimpleKey("release"), ">", RawWord),
     FilterSource(FALSE, AggregateKey("count", <<>>), ">", RawOne)}

----------------------------------------------------------------------------
(* The IssueWidgetQueries component (dashboardsV2/widgetCard)               *)
(*                                                                         *)
(* An optional value (undefined | T, null | T) is None or Some(value).     *)
(* setState is applied at once: every setState of the component happens    *)
(* inside a lifecycle method or a store listener, whose updates React      *)
(* flushes in order when the method returns.                               *)

\* the most fetchData calls of a behaviour
MaxFetches == 2

None == <<>>
Some(x) == <<x>>

\* a WidgetQuery: its name and the rest of its properties
WidgetQuery(name, conditions) == [name |-> name, conditions |-> conditions]

WidgetOf(displayType, interval, queries) ==
    [displayType |-> displayType, interval |-> interval, queries |-> queries]

PropsOf(widget, selection, cursor) ==
    [widget |-> widget, selection |-> selection, cursor |-> cursor]

\* the props the parent may render the component with
PropsSet ==
    {PropsOf(WidgetOf(displayType, interval, <<WidgetQuery(name, conditions)>>),
             selection, cursor) :
        displayType \in {"table", "line"}, interval \in {"5m", "1h"},
        name \in {"", "renamed"}, conditions \in {"", "is:unresolved"},
        selection \in {"14d", "24h"}, cursor \in {None, Some("0:25:0")}}

\* what an API request resolves with, [data, _, resp]: with the response
\* object and both headers, and without a response object
Responses ==
    {[data |-> <<"issue-1">>, resp |-> Some([Link |-> Some("next"), XHits |-> Some("1")])],
     [data |-> <<>>, resp |-> None]}

\* what an API request rejects with: a response with or without
\* responseJSON.detail
Rejections == {[detail |-> Some("Invalid query")], [detail |-> None]}

\* the state property initializer, the member list store not loaded yet
InitialState ==
    [loading |-> TRUE, errorMessage |-> None, tableResults |-> <<>>,
     memberListStoreLoaded |-> FALSE, totalCount |-> None, pageLinks |-> None]

\* this.setState(update): the properties of update replace those of the state
setState(st, update) ==
    [k \in DOMAIN st |-> IF k \in DOMAIN update THEN update[k] ELSE st[k]]

\* the component has not been constructed
WidgetUnmounted ==
    /\ mounted = FALSE
    /\ props = PropsOf(WidgetOf("table", "5m", <<WidgetQuery("", "")>>), "14d", None)
    /\ state = InitialState
    /\ requests = <<>>
    /\ dataFetched = <<>>

\* this.config.transformTable(data, widget.queries[0])
transformTable(data) == [data |-> data]

\* resp?.getResponseHeader(name) ?? null
ResponseHeader(resp, name) == IF resp = None THEN None ELSE resp[1][name]

\* the reduce of componentDidUpdate: the queries without their names
WithoutNames_kept(queries) == queries

WithoutNames(queries) ==
    [i \in DOMAIN queries |-> [conditions |-> queries[i].conditions]]

isSelectionEqual(selection, other) == selection = other

\* the condition under which componentDidUpdate fetches again
Refetches(prevProps, p) ==
    \/ p.widget.displayType /= prevProps.widget.displayType
    \/ p.widget.interval /= prevProps.widget.interval
    \/ WithoutNames(p.widget.queries) /= WithoutNames(prevProps.widget.queries)
    \/ ~isSelectionEqual(p.selection, prevProps.selection)
    \/ p.cursor /= prevProps.cursor

\* fetchData up to its return.  The locals totalCount, pageLinks and
\* transformedResults are undefined when the second setState builds its
\* argument: the callback given to then() runs only after fetchData has
\* returned.  Reading transformedResults.data then throws a TypeError, which
\* the catch block receives as `response`; it has no responseJSON.
fetchData ==
    LET locals == [totalCount |-> None, pageLinks |-> None, transformedResults |-> None]
        cleared == setState(state, [tableResults |-> <<>>, loading |-> TRUE,
                                    errorMessage |-> None])
        errorResponse == None
    IN  /\ requests' = Append(requests, [status |-> "pending", locals |-> locals,
                                         rejection |-> None])
        /\ IF locals.transformedResults /= None
           THEN /\ state' = setState(cleared,
                        [loading |-> FALSE, errorMessage |-> None,
                         tableResults |-> locals.transformedResults[1].data,
                         totalCount |-> locals.totalCount,
                         pageLinks |-> locals.pageLinks])
                /\ dataFetched' = Append(dataFetched,
                        [issuesResults |-> locals.transformedResults[1].data,
                         totalIssuesCount |-> locals.totalCount,
                         pageLinks |-> locals.pageLinks])
           ELSE /\ state' = setState(cleared,
                        [loading |-> FALSE,
                         errorMessage |-> IF errorResponse /= None THEN errorResponse
                                          ELSE Some("Unable to load Widget"),
                         tableResults |-> <<>>])
                /\ UNCHANGED dataFetched

componentDidMount ==
    /\ ~mounted
    /\ mounted' = TRUE
    /\ fetchData
    /\ UNCHANGED <<props, parserVars>>

\* the parent renders the component with other props
componentDidUpdate ==
    /\ mounted
    /\ \E p \in PropsSet \ {props} :
        /\ props' = p
        /\ IF Refetches(props, p)
           THEN Len(requests) < MaxFetches /\ fetchData
           ELSE UNCHANGED <<state, requests, dataFetched>>
    /\ UNCHANGED <<mounted, parserVars>>

\* the listener of MemberListStore: the store has been loaded or reset
MemberListStoreChanged ==
    /\ mounted
    /\ \E loaded \in BOOLEAN \ {state.memberListStoreLoaded} :
        state' = setState(state, [memberListStoreLoaded |-> loaded])
    /\ UNCHANGED <<mounted, props, requests, dataFetched, parserVars>>

\* Promise.all(apiPromises) is fulfilled: the callback given to then() sets
\* the locals of the fetchData call that made the request
RequestResolves ==
    \E i \in DOMAIN requests, response \in Responses :
        /\ requests[i].status = "pending"
        /\ requests' = [requests EXCEPT ![i] =
                [status |-> "resolved",
                 locals |-> [transformedResults |-> Some(transformTable(response.data)),
                             pageLinks |-> ResponseHeader(response.resp, "Link"),
                             totalCount |-> ResponseHeader(response.resp, "XHits")],
                 rejection |-> None]]
        /\ UNCHANGED <<mounted, props, state, dataFetched, parserVars>>

\* Promise.all(apiPromises) is rejected: the promise returned by then() has
\* no handler, nothing of the component runs
RequestRejects ==
    \E i \in DOMAIN requests, response \in Rejections :
        /\ requests[i].status = "pending"
        /\ requests' = [requests EXCEPT ![i] =
                [status |-> "rejected", locals |-> @.locals, rejection |-> Some(response)]]
        /\ UNCHANGED <<mounted, props, state, dataFetched, parserVars>>

\* the first props have the query under its first name
InitWidget ==
    /\ config = defaultConfig
    /\ query = <<>>
    /\ threw = FALSE
    /\ parsed = Null
    /\ escaped = FALSE
    /\ joined = ""
    /\ call = NoCall
    /\ ret = Null
    /\ mounted = FALSE
    /\ props \in {p \in PropsSet : p.widget.queries[1].name = ""}
    /\ state = InitialState
    /\ requests = <<>>
    /\ dataFetched = <<>>

NextWidget ==
    \/ componentDidMount
    \/ componentDidUpdate
    \/ MemberListStoreChanged
    \/ RequestResolves
    \/ RequestRejects

SpecWidget == InitWidget /\ [][NextWidget]_vars

\* the query becomes q: parse it and join the result with the default flags
Reparse(q) ==
    \E result \in {parseSearch(q)} :
        /\ query' = q
        /\ threw' = result.threw
        /\ parsed' = result.value
        /\ escaped' = result.escaped
        /\ joined' = joinQuery(result.value, FALSE, FALSE)
        /\ UNCHANGED <<config, call, ret>>
        /\ UNCHANGED widgetVars

\* nothing typed yet: the empty query, parsed and joined
Init ==
    \E result \in {parseSearch(<<>>)} :
        /\ config = defaultConfig
        /\ query = <<>>
        /\ threw = result.threw
        /\ parsed = result.value
        /\ escaped = result.escaped
        /\ joined = joinQuery(result.value, FALSE, FALSE)
        /\ call = NoCall
        /\ ret = Null
        /\ WidgetUnmounted

TypeSpace ==
    /\ Len(query) < MaxLexemes
    /\ Reparse(Append(query, SpaceLexeme))

TypeFreeText ==
    /\ Len(query) < MaxLexemes
    /\ \E lex \in {WordLexeme, QuotedLexeme, OpenQuoteLexeme} : Reparse(Append(query, lex))

TypeBoolean ==
    /\ Len(query) < MaxLexemes
    /\ \E lex \in {AndLexeme, OrLexeme} : Reparse(Append(query, lex))

TypeParen ==
    /\ Len(query) < MaxLexemes
    /\ \E lex \in {OpenParen, ClosedParen} : Reparse(Append(query, lex))

TypeFilter ==
    /\ Len(query) < MaxLexemes
    /\ \E src \in QueryFilters : Reparse(Append(query, FilterLexeme(src)))

Next == TypeSpace \/ TypeFreeText \/ TypeBoolean \/ TypeParen \/ TypeFilter

Spec == Init /\ [][Next]_vars

----------------------------------------------------------------------------
(* Specification SpecFilter: the grammar's filter rule on one filter       *)
(* source, under the default configuration.                                *)

FilterKeys ==
    {SimpleKey(n) : n \in {"message", "release", "duration", "timestamp", "handled",
                           "times_seen", "p95", "count", "measurements.lcp", "foo", "is",
                           "has"}}
    \cup {ExplicitTagKey("foo"), ExplicitTagKey("duration")}
    \cup {AggregateKey("count", <<>>),
          AggregateKey("p95", <<<<"d", "u", "r", "a", "t", "i", "o", "n">>>>),
          AggregateKey("max", <<<<"m", "e", "s", "s", "a", "g", "e">>>>),
          AggregateKey("failure_rate", <<>>),
          AggregateKey("last_seen", <<>>)}

FilterOperators == {NoOperator, ">", "<=", "=", "!="}

\* a call that has not returned yet
Pending == [type |-> "pending"]

FilterSources ==
    {FilterSource(negation, key, op, raw) :
        negation \in BOOLEAN, key \in FilterKeys, op \in FilterOperators, raw \in RawValues}

InitFilter ==
    /\ config = defaultConfig
    /\ query = <<>>
    /\ threw = FALSE
    /\ parsed = Null
    /\ escaped = FALSE
    /\ joined = ""
    /\ call \in {[fn |-> "filter", src |-> src] : src \in FilterSources}
    /\ ret = Pending
    /\ WidgetUnmounted

ParseFilter ==
    /\ ret = Pending
    /\ ret' = FilterRule(config, call.src)
    /\ UNCHANGED <<config, query, parsed, threw, escaped, joined, call>>
    /\ UNCHANGED widgetVars

NextFilter == ParseFilter

SpecFilter == InitFilter /\ [][NextFilter]_vars

----------------------------------------------------------------------------
(* Specification SpecCalls: one call of an exported function or of a       *)
(* TokenConverter method; Init draws the call and its arguments.           *)

\* the terms handed to joinQuery
SampleTerms ==
    {tokenSpaces(" ", " "), tokenFreeText("abc", "abc", FALSE),
     tokenLogicBoolean("AND", BooleanOperator.And)}

JoinQueryCalls ==
    {[fn |-> "joinQuery", parsedTerms |-> terms, leadingSpace |-> lead,
      additionalSpaceBetween |-> between] :
        terms \in {Null, Undefined}
                  \cup {ParseResult(ts) : ts \in SeqsUpTo(SampleTerms, MaxTerms)},
        lead \in BOOLEAN, between \in BOOLEAN}

NumberChars == {"0", "1", "2", "5", ".", "-"}

\* the unit suffixes of the grammar, no suffix, and a letter that is no unit
NumberUnitArgs == {"", "k", "m", "b", "x"}

TokenValueNumberCalls ==
    {[fn |-> "tokenValueNumber", value |-> value, unit |-> unit] :
        value \in SeqsUpTo(NumberChars, MaxStrLen), unit \in NumberUnitArgs}

\* "true" in every mix of cases
TrueSpellings ==
    {<<t, r, u, e>> : t \in {"t", "T"}, r \in {"r", "R"}, u \in {"u", "U"}, e \in {"e", "E"}}

BooleanArgs ==
    TrueSpellings
    \cup SeqsUpTo({"0", "1", "t", "T"}, MaxStrLen)
    \cup {<<"f", "a", "l", "s", "e">>, <<"F", "A", "L", "S", "E">>,
          <<"t", "r", "u", "e", "1">>, <<"1", "t", "r", "u", "e">>, <<"t", "r", "u">>}

TokenValueBooleanCalls ==
    {[fn |-> "tokenValueBoolean", value |-> value] : value \in BooleanArgs}

\* a letter, the double quote and the backslash
TextChars == {"a", "\"", "\\"}

TextValueArgs ==
    {tokenValueText(Str(chars), chars, quoted) :
        chars \in SeqsUpTo(TextChars, MaxStrLen), quoted \in BOOLEAN}

CheckInvalidTextValueCalls ==
    {[fn |-> "checkInvalidTextValue", valueToken |-> value] : value \in TextValueArgs}

\* [...new Set(s)]: the elements of s in the order of their first occurrence
RECURSIVE Distinct(_)
Distinct(s) ==
    IF s = <<>> THEN <<>>
    ELSE LET init == Distinct(SubSeq(s, 1, Len(s) - 1))
         IN  IF s[Len(s)] \in Range(init) THEN init ELSE Append(init, s[Len(s)])

\* Array.prototype.flat
RECURSIVE Flat(_)
Flat(ss) == IF ss = <<>> THEN <<>> ELSE Head(ss) \o Flat(Tail(ss))

\* interchangeableFilterOperators[type] ?? []
interchangeableFilterOperators(type) ==
    CASE type = FilterType.SpecificDate -> <<FilterType.Date>>
      [] type = FilterType.Date -> <<FilterType.SpecificDate>>
      [] OTHER -> <<>>

\* getValidOps reading only the filter's own type
getValidOps_ownTypeOnly(filterToken) ==
    LET validTypes == <<filterToken.filter>>
        interchangeableTypes ==
            [i \in DOMAIN validTypes |-> interchangeableFilterOperators(validTypes[i])]
        allValidTypes == Distinct(validTypes \o Flat(interchangeableTypes))
    IN  Distinct(Flat([i \in DOMAIN allValidTypes |->
                        filterTypeConfig[allValidTypes[i]].validOps]))

getValidOps(filterToken) ==
    LET validTypes ==
            IF filterToken.invalid /= Null /\ "expectedType" \in DOMAIN filterToken.invalid
            THEN filterToken.invalid.expectedType
            ELSE <<filterToken.filter>>
        interchangeableTypes ==
            [i \in DOMAIN validTypes |-> interchangeableFilterOperators(validTypes[i])]
        allValidTypes == Distinct(validTypes \o Flat(interchangeableTypes))
    IN  Distinct(Flat([i \in DOMAIN allValidTypes |->
                        filterTypeConfig[allValidTypes[i]].validOps]))

----------------------------------------------------------------------------
(* The search groups of the dropdown *)

\* the most items a list of search items holds
MaxItems == 2

ItemType ==
    [DEFAULT |-> "default", TAG_KEY |-> "tag-key", TAG_VALUE |-> "tag-value",
     TAG_OPERATOR |-> "tag-operator", INVALID_TAG |-> "invalid-tag",
     RECENT_SEARCH |-> "recent-search", PROPERTY |-> "property"]

\* a SearchItem; a value that is absent and the empty string are both <<>>:
\* the code only tests !value and value.length
SearchItem(type, value, children, ignoreMaxSearchItems) ==
    [type |-> type, value |-> value, children |-> children,
     ignoreMaxSearchItems |-> ignoreMaxSearchItems]

getTitleForType(type) ==
    CASE type = ItemType.TAG_VALUE -> "Values"
      [] type = ItemType.RECENT_SEARCH -> "Recent Searches"
      [] type = ItemType.DEFAULT -> "Common Search Terms"
      [] type = ItemType.TAG_OPERATOR -> "Operator Helpers"
      [] type = ItemType.PROPERTY -> "Properties"
      [] OTHER -> "Keys"

\* !value.value || value.value.length <= queryCharsLeft
FitsQuery(item, queryCharsLeft) ==
    item.value = <<>> \/ Len(item.value) <= queryCharsLeft

\* searchItems.filter((value, index) => index < maxSearchItems || value.ignoreMaxSearchItems)
RECURSIVE FirstItems(_, _)
FirstItems(items, maxSearchItems) ==
    IF items = <<>> THEN <<>>
    ELSE LET init == FirstItems(SubSeq(items, 1, Len(items) - 1), maxSearchItems)
             last == items[Len(items)]
         IN  IF Len(items) - 1 < maxSearchItems \/ last.ignoreMaxSearchItems
             THEN Append(init, last) ELSE init

\* the flatMap of filterSearchItems: a leaf stays when it fits, a parent
\* keeps its fitting children and stays when one is left
RECURSIVE FittingItems(_, _)
FittingItems(items, queryCharsLeft) ==
    IF items = <<>> THEN <<>>
    ELSE LET item == Head(items)
             rest == FittingItems(Tail(items), queryCharsLeft)
         IN  IF item.children = None
             THEN IF FitsQuery(item, queryCharsLeft) THEN <<item>> \o rest ELSE rest
             ELSE LET children == SelectSeq(item.children[1],
                                      LAMBDA child : FitsQuery(child, queryCharsLeft))
                  IN  IF children = <<>> THEN rest
                      ELSE <<[item EXCEPT !.children = Some(children)]>> \o rest

filterSearchItems(searchItems, recentSearchItems, maxSearchItems, queryCharsLeft) ==
    LET limited ==
            IF maxSearchItems /= None /\ maxSearchItems[1] > 0
            THEN FirstItems(searchItems, maxSearchItems[1])
            ELSE searchItems
    IN  IF queryCharsLeft = None
        THEN [searchItems |-> limited, recentSearchItems |-> recentSearchItems]
        ELSE [searchItems |->
                SelectSeq(FittingItems(limited, queryCharsLeft[1]),
                          LAMBDA value : FitsQuery(value, queryCharsLeft[1])),
              recentSearchItems |->
                IF recentSearchItems = None THEN None
                ELSE Some(SelectSeq(recentSearchItems[1],
                                    LAMBDA value : FitsQuery(value, queryCharsLeft[1])))]

\* the flatMap of createSearchGroups
RECURSIVE FlatItems(_)
FlatItems(items) ==
    IF items = <<>> THEN <<>>
    ELSE LET item == Head(items)
         IN  (IF item.children = None THEN <<item>>
              ELSE IF item.value = <<>> THEN item.children[1]
              ELSE <<item>> \o item.children[1]) \o FlatItems(Tail(items))

\* a SearchGroup, without its icon
SearchGroup(title, type, children) == [title |-> title, type |-> type, children |-> children]

createSearchGroups(searchItems, recentSearchItems, type, maxSearchItems, queryCharsLeft, isDefaultState) ==
    LET filtered == filterSearchItems(searchItems, recentSearchItems, maxSearchItems,
                                      queryCharsLeft)
        searchGroup ==
            SearchGroup(getTitleForType(type),
                        IF type = ItemType.INVALID_TAG THEN type ELSE "header",
                        filtered.searchItems)
        recentSearchGroup ==
            IF filtered.recentSearchItems /= None /\ Len(filtered.recentSearchItems[1]) > 0
            THEN <<SearchGroup("Recent Searches", "header", filtered.recentSearchItems[1])>>
            ELSE <<>>
        flatSearchItems == FlatItems(filtered.searchItems)
        recent == IF recentSearchItems /= None THEN recentSearchItems[1] ELSE <<>>
    IN  IF isDefaultState
        THEN [searchGroups |-> recentSearchGroup \o <<searchGroup>>,
              flatSearchItems |-> recent \o flatSearchItems,
              activeSearchItem |-> -1]
        ELSE [searchGroups |-> <<searchGroup>> \o recentSearchGroup,
              flatSearchItems |-> flatSearchItems \o recent,
              activeSearchItem |-> -1]

\* aggregate keys: without arguments, with a duration column, with a column
\* that is no duration, with a name that is no column, with too many
\* arguments; foo is no function of the catalog
AggregateKeys ==
    {AggregateKey(name, args) :
        name \in {"count", "p95", "max", "failure_rate", "last_seen", "foo"},
        args \in {<<>>,
                  <<<<"d", "u", "r", "a", "t", "i", "o", "n">>>>,
                  <<<<"m", "e", "s", "s", "a", "g", "e">>>>,
                  <<<<"b", "a", "r">>, <<"d", "u", "r", "a", "t", "i", "o", "n">>>>}}

\* the keys and the values of the filters handed to checkInvalidFilter
ValidatedKeys ==
    {SimpleKey(n) : n \in KeyNames}
    \cup {ExplicitTagKey("foo"), ExplicitTagKey("duration"), ExplicitTagKey("p95")}
    \cup AggregateKeys

ValidatedTextValues ==
    {TextValue(<<>>, raw) : raw \in {RawWord, RawEmpty, RawStrayQuote, RawQuoted, RawNum}}
    \cup {tokenValueText("\"\"", <<>>, TRUE)}

\* one value of each typed format
ValidatedTypedValues ==
    {ValueOfForm("iso", RawIso), ValueOfForm("rel", RawRel), ValueOfForm("dur", RawDur),
     ValueOfForm("pct", RawPct), ValueOfForm("bool", RawTrue), ValueOfForm("num", RawNum)}

\* Text, Is and Has filters on text values; the scalar typed filters and the
\* aggregate filters on typed values
CheckInvalidFilterCalls ==
    {[fn |-> "checkInvalidFilter", filter |-> filter, key |-> key, value |-> value] :
        filter \in {FilterType.Text, FilterType.Is, FilterType.Has},
        key \in ValidatedKeys, value \in ValidatedTextValues}
    \cup {[fn |-> "checkInvalidFilter", filter |-> filter, key |-> key, value |-> value] :
        filter \in {FilterType.Numeric, FilterType.Duration, FilterType.Boolean,
                    FilterType.Date, FilterType.SpecificDate, FilterType.RelativeDate},
        key \in ValidatedKeys, value \in ValidatedTypedValues}
    \cup {[fn |-> "checkInvalidFilter", filter |-> filter, key |-> key, value |-> value] :
        filter \in AggregateFilter, key \in AggregateKeys, value \in ValidatedTypedValues}

PredicateFilterCalls ==
    {[fn |-> "predicateFilter", type |-> type, key |-> key] :
        type \in FilterTypes, key \in ValidatedKeys}

\* parameter definitions of every kind, required and optional, and none
ParameterDefinitions ==
    {ColumnParameter(required, TRUE, NumericColumnTypes) : required \in BOOLEAN}
    \cup {ColumnParameter(required, FALSE, <<"duration", "date">>) : required \in BOOLEAN}
    \cup {DropdownParameter(required, <<"1", "message">>) : required \in BOOLEAN}
    \cup {ValueParameter(required, dataType) :
            required \in BOOLEAN,
            dataType \in {FieldValueType.NUMBER, FieldValueType.STRING}}
    \cup {Undefined}

\* argument texts: none, columns of several types, a name that is no
\* column, numbers and near-numbers
ParameterValues ==
    {<<>>, <<"d", "u", "r", "a", "t", "i", "o", "n">>, <<"m", "e", "s", "s", "a", "g", "e">>,
     <<"l", "a", "s", "t", "_", "s", "e", "e", "n">>, <<"b", "a", "r">>,
     <<"1">>, <<"-", ".", "5">>, <<"1", "x">>, <<"x", "1">>, <<".">>, <<" ", "2">>,
     <<"I", "n", "f", "i", "n", "i", "t", "y">>}

ValidateAggregateParameterCalls ==
    {[fn |-> "validateAggregateParameter", keyName |-> keyName,
      parameterDefinition |-> parameterDefinition, parameterValue |-> parameterValue,
      position |-> position, numExpectedArguments |-> numExpectedArguments] :
        keyName \in {"p95", "count", "last_seen", "foo"},
        parameterDefinition \in ParameterDefinitions,
        parameterValue \in ParameterValues,
        position \in 1..2, numExpectedArguments \in 0..2}

\* the list values of in filters: a first item, then up to two more, each
\* of which may be missing; a text item may be the quoted empty string
ListJoined(item) == <<NoSpace, ",", NoSpace, Undefined, item>>

\* the text of a list of items: [item,item,...], a missing item being empty
ItemsText(all) ==
    "[" \o JoinStrings([i \in DOMAIN all |-> IF all[i] = Null THEN "" ELSE all[i].text], ",")
        \o "]"

TextListValues ==
    LET word == tokenValueText("a", <<"a">>, FALSE)
        blank == tokenValueText("\"\"", <<>>, TRUE)
    IN  {tokenValueTextList(ItemsText(<<item1>> \o items), item1, [i \in DOMAIN items |-> ListJoined(items[i])]) :
            item1 \in {word, blank}, items \in SeqsUpTo({word, blank, Null}, 2)}

NumberListValues ==
    LET one == tokenValueNumber("1", <<"1">>, "")
    IN  {tokenValueNumberList(ItemsText(<<one>> \o items), one, [i \in DOMAIN items |-> ListJoined(items[i])]) :
            items \in SeqsUpTo({one, Null}, 2)}

CheckInvalidInFilterCalls ==
    {[fn |-> "checkInvalidFilter", filter |-> FilterType.TextIn, key |-> key,
      value |-> value] :
        key \in {SimpleKey("foo"), SimpleKey("duration"), SimpleKey("count"),
                 ExplicitTagKey("foo")},
        value \in TextListValues}
    \cup {[fn |-> "checkInvalidFilter", filter |-> FilterType.NumericIn, key |-> key,
           value |-> value] :
        key \in {SimpleKey("foo"), SimpleKey("duration"), SimpleKey("count"),
                 ExplicitTagKey("foo")},
        value \in NumberListValues}

\* filter tokens of every filter type, as tokenFilter builds them under the
\* default configuration: text filters valid, invalid with a hint and invalid
\* without one; typed, in, aggregate, has and is filters
ValidOpsFilters ==
    LET Built(filter, key, value) ==
            tokenFilter(key.text \o ":" \o value.text, defaultConfig, filter, key, value,
                        NoOperator, FALSE)
    IN  {Built(FilterType.Text, SimpleKey(name), TextValue(<<>>, raw)) :
            name \in {"message", "duration", "timestamp", "handled", "times_seen", "foo",
                      "p95"},
            raw \in {RawWord, RawEmpty}}
        \cup {Built(filter, SimpleKey("timestamp"), ValueOfForm("iso", RawIso)) :
                filter \in {FilterType.Date, FilterType.SpecificDate}}
        \cup {Built(FilterType.RelativeDate, SimpleKey("timestamp"), ValueOfForm("rel", RawRel)),
              Built(FilterType.Duration, SimpleKey("duration"), ValueOfForm("dur", RawDur)),
              Built(FilterType.Numeric, SimpleKey("times_seen"), ValueOfForm("num", RawNum)),
              Built(FilterType.Boolean, SimpleKey("handled"), ValueOfForm("bool", RawTrue)),
              Built(FilterType.Has, SimpleKey("has"), TextValue(<<>>, RawWord)),
              Built(FilterType.Is, SimpleKey("is"), TextValue(<<>>, RawWord))}
        \cup {Built(FilterType.TextIn, SimpleKey("foo"), value) : value \in TextListValues}
        \cup {Built(FilterType.NumericIn, SimpleKey("times_seen"), value) :
                value \in NumberListValues}
        \cup {Built(filter, key, ValueOfForm("num", RawNum)) :
                filter \in AggregateFilter, key \in AggregateKeys}

GetValidOpsCalls == {[fn |-> "getValidOps", filterToken |-> f] : f \in ValidOpsFilters}

\* search items: leaves without a value, with a short and with a long one,
\* one of them exempt from maxSearchItems; parents with and without a value
SearchLeaves(type) ==
    {SearchItem(type, value, None, FALSE) : value \in {<<>>, <<"a">>, <<"a", "a", "a">>}}
    \cup {SearchItem(type, <<"a">>, None, TRUE)}

SearchParents(type) ==
    LET short == SearchItem(type, <<"a">>, None, FALSE)
        long == SearchItem(type, <<"a", "a", "a">>, None, FALSE)
    IN  {SearchItem(type, <<>>, Some(<<short, long>>), FALSE),
         SearchItem(type, <<"a">>, Some(<<long>>), FALSE),
         SearchItem(type, <<"a", "a", "a">>, Some(<<short>>), FALSE),
         SearchItem(type, <<"a">>, Some(<<>>), FALSE)}

RecentSearches ==
    {SearchItem(ItemType.RECENT_SEARCH, value, None, FALSE) :
        value \in {<<"a">>, <<"a", "a", "a">>}}

CreateSearchGroupsCalls ==
    {[fn |-> "createSearchGroups", searchItems |-> searchItems,
      recentSearchItems |-> recentSearchItems, type |-> type,
      maxSearchItems |-> maxSearchItems, queryCharsLeft |-> queryCharsLeft,
      isDefaultState |-> isDefaultState] :
        type \in {ItemType.TAG_KEY},
        searchItems \in SeqsUpTo(SearchLeaves(ItemType.TAG_KEY)
                                    \cup SearchParents(ItemType.TAG_KEY), MaxItems),
        recentSearchItems \in {None} \cup {Some(r) : r \in SeqsUpTo(RecentSearches, MaxItems)},
        maxSearchItems \in {None, Some(0), Some(1)},
        queryCharsLeft \in {None, Some(0), Some(2)},
        isDefaultState \in BOOLEAN}

PredicateTextOperatorCalls ==
    {[fn |-> "predicateTextOperator", key |-> key] : key \in ValidatedKeys}

\* the typed key families of a SearchConfig
Families == {"durationKeys", "dateKeys", "booleanKeys", "numericKeys"}

\* the keys whose families the configurations vary: a tag and a function
ProbeKeys == {"foo", "count"}

\* the default configuration with the probe keys added to some families
ConfigWith(families) ==
    [f \in DOMAIN defaultConfig |->
        IF f \in families THEN defaultConfig[f] \cup ProbeKeys ELSE defaultConfig[f]]

Configs == {ConfigWith(families) : families \in SUBSET Families}

InitCalls ==
    /\ query = <<>>
    /\ threw = FALSE
    /\ parsed = Null
    /\ escaped = FALSE
    /\ joined = ""
    /\ call \in JoinQueryCalls \cup TokenValueNumberCalls \cup TokenValueBooleanCalls
                \cup CheckInvalidTextValueCalls \cup CheckInvalidFilterCalls
                \cup PredicateFilterCalls \cup PredicateTextOperatorCalls
                \cup ValidateAggregateParameterCalls \cup CheckInvalidInFilterCalls
                \cup GetValidOpsCalls
    /\ config \in CASE call.fn \in {"checkInvalidFilter", "predicateFilter"} -> Configs
                    [] call.fn = "predicateTextOperator" ->
                          {defaultConfig, ConfigWith({"textOperatorKeys"}),
                           ConfigWith(Families)}
                    [] OTHER -> {defaultConfig}
    /\ ret = Pending
    /\ WidgetUnmounted

Returns(value) ==
    /\ ret = Pending
    /\ ret' = value
    /\ UNCHANGED <<config, query, parsed, threw, escaped, joined, call>>
    /\ UNCHANGED widgetVars

CallJoinQuery ==
    /\ call.fn = "joinQuery"
    /\ Returns([value |-> joinQuery(call.parsedTerms, call.leadingSpace,
                                    call.additionalSpaceBetween)])

CallTokenValueNumber ==
    /\ call.fn = "tokenValueNumber"
    /\ Returns(tokenValueNumber(Str(call.value) \o call.unit, call.value, call.unit))

CallTokenValueBoolean ==
    /\ call.fn = "tokenValueBoolean"
    /\ Returns(tokenValueBoolean(Str(call.value), call.value))

CallCheckInvalidTextValue ==
    /\ call.fn = "checkInvalidTextValue"
    /\ Returns([value |-> checkInvalidTextValue(call.valueToken)])

CallCheckInvalidFilter ==
    /\ call.fn = "checkInvalidFilter"
    /\ Returns([value |-> checkInvalidFilter(config, call.filter, call.key, call.value)])

CallPredicateFilter ==
    /\ call.fn = "predicateFilter"
    /\ Returns([value |-> predicateFilter(config, call.type, call.key)])

CallPredicateTextOperator ==
    /\ call.fn = "predicateTextOperator"
    /\ Returns([value |-> predicateTextOperator(config, call.key)])

CallValidateAggregateParameter ==
    /\ call.fn = "validateAggregateParameter"
    /\ Returns([value |-> validateAggregateParameter(call.keyName,
                    call.parameterDefinition, call.parameterValue, call.position,
                    call.numExpectedArguments)])

CallGetValidOps ==
    /\ call.fn = "getValidOps"
    /\ Returns([value |-> getValidOps(call.filterToken)])

CallCreateSearchGroups ==
    /\ call.fn = "createSearchGroups"
    /\ Returns([value |-> createSearchGroups(call.searchItems, call.recentSearchItems,
                    call.type, call.maxSearchItems, call.queryCharsLeft,
                    call.isDefaultState)])

NextCalls ==
    \/ CallJoinQuery
    \/ CallTokenValueNumber
    \/ CallTokenValueBoolean
    \/ CallCheckInvalidTextValue
    \/ CallCheckInvalidFilter
    \/ CallPredicateFilter
    \/ CallPredicateTextOperator
    \/ CallValidateAggregateParameter
    \/ CallGetValidOps

SpecCalls == InitCalls /\ [][NextCalls]_vars

\* the calls of createSearchGroups
InitGroups ==
    /\ config = defaultConfig
    /\ query = <<>>
    /\ threw = FALSE
    /\ parsed = Null
    /\ escaped = FALSE
    /\ joined = ""
    /\ call \in CreateSearchGroupsCalls
    /\ ret = Pending
    /\ WidgetUnmounted

NextGroups == CallCreateSearchGroups

SpecGroups == InitGroups /\ [][NextGroups]_vars

----------------------------------------------------------------------------
(* Properties of parseSearch and of the filter rule *)

\* the filter nodes among some terms, those inside groups included
RECURSIVE FiltersOf(_)
FiltersOf(terms) ==
    IF terms = <<>> THEN {}
    ELSE (CASE terms[1].type = Token.Filter -> {terms[1]}
            [] terms[1].type = Token.LogicGroup -> FiltersOf(terms[1].inner)
            [] OTHER -> {})
         \cup FiltersOf(Tail(terms))

\* C1: for every query that parses, joining the parse result with the
\* default flags gives back the query: the texts of the top-level terms,
\* concatenated in order, are the input.
C1_RoundTrip == parsed /= Null => joined = QueryText(query)

\* a parsed query of a filter and a group, joined back to what was typed
C1_Witness ==
    /\ parsed /= Null
    /\ Len(parsed.terms) = 2
    /\ parsed.terms[1].type = Token.Filter
    /\ parsed.terms[2].type = Token.LogicGroup
    /\ joined = "message:abc()"
    /\ joined = QueryText(query)

\* C2: no exception leaves parseSearch; it returns null exactly when the
\* grammar raised an error, and a parse result otherwise, also when a
\* filter of the result is marked invalid.
C2_NeverThrows ==
    /\ escaped = FALSE
    /\ parsed = Null <=> threw
    /\ parsed /= Null => parsed.type = "parseResult"

\* a query that parses although one of its filters is invalid
C2_Witness ==
    /\ parsed /= Null
    /\ \E f \in FiltersOf(parsed.terms) : f.invalid /= Null

\* C4: a filter node is negated only if its type can be negated; no Date,
\* SpecificDate or RelativeDate filter is negated.
C4_NegatedCanNegate ==
    ret /= Pending =>
        /\ ret.negated => filterTypeConfig[ret.filter].canNegate
        /\ ret.filter \in {FilterType.Date, FilterType.SpecificDate, FilterType.RelativeDate}
              => ~ret.negated

\* a negated source on a date key with a date value: it is not a date filter
C4_Witness ==
    /\ ret /= Pending
    /\ call.src.negation
    /\ call.src.key = SimpleKey("timestamp")
    /\ call.src.raw = RawIso
    /\ ret.negated
    /\ ret.filter = FilterType.Text

\* C5: the operator of a filter node is one of the valid operators of its
\* filter type, or "".
C5_OperatorInValidOps ==
    ret /= Pending =>
        ret.operator \in Range(filterTypeConfig[ret.filter].validOps) \cup {TermOperator.Default}

----------------------------------------------------------------------------
(* Properties of the exported functions and the TokenConverter methods *)

\* the texts of the first n terms, sep between them
RECURSIVE Separated(_, _, _)
Separated(terms, n, sep) ==
    IF n = 0 THEN ""
    ELSE IF n = 1 THEN terms[1].text
    ELSE Separated(terms, n - 1, sep) \o sep \o terms[n].text

\* C3: joinQuery returns '' for null, undefined and an empty list whatever
\* the flags; otherwise the texts in order, separated by ' ' exactly when
\* additionalSpaceBetween is set, after one ' ' exactly when leadingSpace is
\* set.
C3_JoinQuery ==
    (call.fn = "joinQuery" /\ ret /= Pending) =>
        IF call.parsedTerms \in {Null, Undefined} THEN ret.value = ""
        ELSE IF call.parsedTerms.terms = <<>> THEN ret.value = ""
        ELSE ret.value =
                (IF call.leadingSpace THEN " " ELSE "")
                \o Separated(call.parsedTerms.terms, Len(call.parsedTerms.terms),
                             IF call.additionalSpaceBetween THEN " " ELSE "")

\* three terms joined with both flags set
C3_Witness ==
    /\ call.fn = "joinQuery"
    /\ ret /= Pending
    /\ call.parsedTerms /= Null
    /\ call.parsedTerms /= Undefined
    /\ Len(call.parsedTerms.terms) = 3
    /\ call.leadingSpace
    /\ call.additionalSpaceBetween
    /\ ret.value = " abc AND abc"

\* n times ten to the e
Scaled(n, e) ==
    IF n = NaN THEN NaN
    ELSE IF n.m = 0 THEN n
    ELSE [m |-> n.m, e |-> n.e + e]

C7_BooleanValue ==
    (call.fn = "tokenValueBoolean" /\ ret /= Pending) =>
        (ret.value <=> (call.value = <<"1">> \/ call.value \in TrueSpellings))

\* TRUE is true
C7_Witness ==
    /\ call.fn = "tokenValueBoolean"
    /\ ret /= Pending
    /\ call.value = <<"T", "R", "U", "E">>
    /\ ret.value = TRUE

\* every double quote of cs follows a backslash
AllQuotesEscaped(cs) ==
    \A i \in 1..Len(cs) : cs[i] = "\"" => (i > 1 /\ cs[i - 1] = "\\")

\* C8: checkInvalidTextValue: an unquoted value with a double quote at the
\* start or not preceded by a backslash gives the quotes reason; otherwise an
\* unquoted empty value gives the missing-value reason; anything else gives
\* null.  The result has no expectedType.
C8_TextValue ==
    (call.fn = "checkInvalidTextValue" /\ ret /= Pending) =>
        LET v == call.valueToken
        IN  /\ ret.value =
                   IF ~v.quoted /\ ~AllQuotesEscaped(v.value)
                   THEN [reason |-> "Quotes must enclose text or be escaped"]
                   ELSE IF ~v.quoted /\ v.value = <<>>
                   THEN [reason |-> "Filter must have a value"]
                   ELSE Null
            /\ "expectedType" \notin DOMAIN ret.value

\* an unquoted value whose only quote is escaped is accepted
C8_Witness ==
    /\ call.fn = "checkInvalidTextValue"
    /\ ret /= Pending
    /\ ~call.valueToken.quoted
    /\ call.valueToken.value = <<"a", "\\", "\"">>
    /\ ret.value = Null

\* C9: a Text filter on a simple key that is not a function and is of a
\* typed family is invalid with that family's hint whatever the value; of
\* several families the first of duration, date, boolean, numeric wins; a
\* key of no family gets no expectedType.
C9_TextFilterHints ==
    (/\ call.fn = "checkInvalidFilter"
     /\ ret /= Pending
     /\ call.filter = FilterType.Text
     /\ call.key.type = Token.KeySimple
     /\ ~IsFunctionKey(call.key.value)) =>
        LET name == call.key.value
            r == ret.value
        IN  IF isDuration(config, name)
            THEN r = [reason |->
                        "Invalid duration. Expected number followed by duration unit suffix",
                      expectedType |-> <<FilterType.Duration>>]
            ELSE IF isDate(config, name)
            THEN /\ r /= Null
                 /\ DOMAIN r = {"reason", "expectedType"}
                 /\ r.expectedType =
                        <<FilterType.Date, FilterType.SpecificDate, FilterType.RelativeDate>>
            ELSE IF isBoolean(config, name)
            THEN /\ r /= Null
                 /\ DOMAIN r = {"reason", "expectedType"}
                 /\ r.expectedType = <<FilterType.Boolean>>
            ELSE IF isNumeric(config, name)
            THEN /\ r /= Null
                 /\ DOMAIN r = {"reason", "expectedType"}
                 /\ r.expectedType = <<FilterType.Numeric, FilterType.NumericIn>>
            ELSE "expectedType" \notin DOMAIN r

\* a key of all four families with an empty value: the duration hint
C9_Witness ==
    /\ call.fn = "checkInvalidFilter"
    /\ ret /= Pending
    /\ call.filter = FilterType.Text
    /\ call.key = SimpleKey("foo")
    /\ \A f \in Families : "foo" \in config[f]
    /\ ~call.value.quoted
    /\ call.value.value = <<>>
    /\ ret.value.expectedType = <<FilterType.Duration>>

\* C10: a Text filter whose key name is a function of the field catalog
\* gets no expectedType, whatever typed families the name is in, and is
\* valid when its text value is sane.
C10_FunctionKeyFallsThrough ==
    (/\ call.fn = "checkInvalidFilter"
     /\ ret /= Pending
     /\ call.filter = FilterType.Text
     /\ IsFunctionKey(getKeyName(call.key))) =>
        /\ "expectedType" \notin DOMAIN ret.value
        /\ (call.value.quoted
            \/ (call.value.value /= <<>> /\ AllQuotesEscaped(call.value.value)))
              => ret.value = Null

\* p95:abc with p95 a duration key: valid
C10_Witness ==
    /\ call.fn = "checkInvalidFilter"
    /\ ret /= Pending
    /\ call.filter = FilterType.Text
    /\ call.key = SimpleKey("p95")
    /\ "p95" \in config.durationKeys
    /\ call.value.value = <<"a", "b", "c">>
    /\ ret.value = Null

----------------------------------------------------------------------------
(* Properties of the predicates and of the validator *)

\* the key name is numeric and no function: predicateFilter admits NumericIn
AdmitsNumericIn(cfg, name) == isNumeric(cfg, name) /\ ~IsFunctionKey(name)

C12_ScalarTypedNeverInvalid ==
    (/\ call.fn = "checkInvalidFilter"
     /\ ret /= Pending
     /\ call.filter \in {FilterType.Numeric, FilterType.Duration, FilterType.Boolean,
                         FilterType.Date, FilterType.SpecificDate,
                         FilterType.RelativeDate}) =>
        ret.value = Null

\* a Numeric filter on a key that is not numeric, with a duration value
C12_Witness ==
    /\ call.fn = "checkInvalidFilter"
    /\ ret /= Pending
    /\ call.filter = FilterType.Numeric
    /\ call.key = SimpleKey("message")
    /\ call.value.type = Token.ValueDuration
    /\ ~isNumeric(config, "message")
    /\ ret.value = Null


\* the name of a key: of a simple key its value, of an explicit tag the
\* name inside the brackets, of an aggregate the function name
NameOf(key) ==
    CASE key.type = Token.KeySimple -> key.value
      [] key.type = Token.KeyExplicitTag -> key.key.value
      [] key.type = Token.KeyAggregate -> key.name.value

\* the key names of the catalogued type a scalar typed filter asks for
TypedNames(cfg, type) ==
    CASE type \in {FilterType.Numeric, FilterType.NumericIn} ->
            cfg.numericKeys \cup Measurements \cup SpanOperationBreakdownFields
      [] type = FilterType.Duration ->
            cfg.durationKeys \cup SpanOperationBreakdownFields \cup DurationMeasurements
      [] type = FilterType.Boolean -> cfg.booleanKeys
      [] type \in {FilterType.Date, FilterType.RelativeDate, FilterType.SpecificDate} ->
            cfg.dateKeys

ScalarTypedFilters ==
    {FilterType.Numeric, FilterType.NumericIn, FilterType.Duration, FilterType.Boolean,
     FilterType.Date, FilterType.RelativeDate, FilterType.SpecificDate}

\* C13 as stated: predicateFilter admits the typed variants exactly by the
\* key's catalogued type, for every key.
C13_TypedByCatalogOriginal ==
    (/\ call.fn = "predicateFilter"
     /\ ret /= Pending
     /\ call.type \in ScalarTypedFilters) =>
        (ret.value <=> NameOf(call.key) \in TypedNames(config, call.type))

\* C13 amended: for a key whose name is no function of the catalog
\* predicateFilter admits the typed variants exactly by the key's
\* catalogued type (measurements and span-operation breakdowns numeric,
\* breakdowns and duration measurements durations); for a key whose name is
\* a function it admits none of them.
C13_TypedByCatalog ==
    (/\ call.fn = "predicateFilter"
     /\ ret /= Pending
     /\ call.type \in ScalarTypedFilters) =>
        (ret.value <=> /\ NameOf(call.key) \in TypedNames(config, call.type)
                       /\ ~IsFunctionKey(NameOf(call.key)))

\* count is a numeric key and a function: Numeric is refused
C13_Witness ==
    /\ call.fn = "predicateFilter"
    /\ ret /= Pending
    /\ call.type = FilterType.Numeric
    /\ call.key = SimpleKey("count")
    /\ "count" \in config.numericKeys
    /\ ret.value = FALSE


\* the argument list of an aggregate key was written
HasArgumentList(key) == key.type = Token.KeyAggregate /\ key.args /= Null

\* the names written as the arguments of a key
ArgumentNames(key) ==
    IF HasArgumentList(key)
    THEN {Str(key.args.args[i].value.value) : i \in DOMAIN key.args.args}
    ELSE {}

\* C14 as stated: a function key is admitted as AggregateDuration when
\* isDuration holds of its name or of any of its arguments.
C14_AggregateDurationOriginal ==
    (/\ call.fn = "predicateFilter"
     /\ ret /= Pending
     /\ call.type = FilterType.AggregateDuration
     /\ IsFunctionKey(NameOf(call.key))
     /\ \/ NameOf(call.key) \in TypedNames(config, FilterType.Duration)
        \/ ArgumentNames(call.key) \cap TypedNames(config, FilterType.Duration) /= {}) =>
        ret.value = TRUE

\* C14 amended: a function key is admitted as AggregateDuration iff
\* isDuration holds of its name and either no argument list was written or
\* isDuration holds of at least one argument.
C14_AggregateDuration ==
    (/\ call.fn = "predicateFilter"
     /\ ret /= Pending
     /\ call.type = FilterType.AggregateDuration
     /\ IsFunctionKey(NameOf(call.key))) =>
        (ret.value <=>
            /\ NameOf(call.key) \in TypedNames(config, FilterType.Duration)
            /\ \/ ~HasArgumentList(call.key)
               \/ ArgumentNames(call.key) \cap TypedNames(config, FilterType.Duration) /= {})

\* count(duration): the argument is a duration, the name is not: refused
C14_Witness ==
    /\ call.fn = "predicateFilter"
    /\ ret /= Pending
    /\ call.type = FilterType.AggregateDuration
    /\ call.key = AggregateKey("count", <<<<"d", "u", "r", "a", "t", "i", "o", "n">>>>)
    /\ "count" \notin config.durationKeys
    /\ "duration" \in config.durationKeys
    /\ ret.value = FALSE


\* C15: for a key whose name is a function predicateFilter admits
\* AggregateNumeric, AggregateDate, AggregatePercentage and
\* AggregateRelativeDate, whatever typed sets the name is in and whatever
\* its arguments.
C15_AggregatesUnconditional ==
    (/\ call.fn = "predicateFilter"
     /\ ret /= Pending
     /\ call.type \in {FilterType.AggregateNumeric, FilterType.AggregateDate,
                       FilterType.AggregatePercentage, FilterType.AggregateRelativeDate}
     /\ IsFunctionKey(NameOf(call.key))) =>
        ret.value = TRUE

\* count(message) is admitted as AggregatePercentage though count is no
\* percentage key
C15_Witness ==
    /\ call.fn = "predicateFilter"
    /\ ret /= Pending
    /\ call.type = FilterType.AggregatePercentage
    /\ call.key = AggregateKey("count", <<<<"m", "e", "s", "s", "a", "g", "e">>>>)
    /\ "count" \notin config.percentageKeys
    /\ ret.value = TRUE

\* C16: predicateFilter(Text, key) is true for every key.
C16_TextCatchAll ==
    (call.fn = "predicateFilter" /\ ret /= Pending /\ call.type = FilterType.Text) =>
        ret.value = TRUE

\* p95, a function and a duration key, as a simple key
C16_Witness ==
    /\ call.fn = "predicateFilter"
    /\ ret /= Pending
    /\ call.type = FilterType.Text
    /\ call.key = SimpleKey("p95")
    /\ "p95" \in config.durationKeys
    /\ ret.value = TRUE

\* C17: predicateTextOperator(key) is true iff the key's name is in
\* config.textOperatorKeys.
C17_TextOperatorKeys ==
    (call.fn = "predicateTextOperator" /\ ret /= Pending) =>
        (ret.value <=> NameOf(call.key) \in config.textOperatorKeys)

\* foo is no field of the catalog; the configuration lists it
C17_Witness ==
    /\ call.fn = "predicateTextOperator"
    /\ ret /= Pending
    /\ call.key = SimpleKey("foo")
    /\ "foo" \in config.textOperatorKeys
    /\ "foo" \notin DOMAIN FIELDS
    /\ ret.value = TRUE


\* the verdict of text value sanity on a text value token, stated with
\* AllQuotesEscaped
SanityVerdict(v) ==
    IF ~v.quoted /\ ~AllQuotesEscaped(v.value)
    THEN [reason |-> "Quotes must enclose text or be escaped"]
    ELSE IF ~v.quoted /\ v.value = <<>>
    THEN [reason |-> "Filter must have a value"]
    ELSE Null

\* the name is in one of the four typed families and is no function
TypedPlainName(cfg, name) ==
    /\ ~IsFunctionKey(name)
    /\ name \in UNION {TypedNames(cfg, type) :
                         type \in {FilterType.Duration, FilterType.Date,
                                   FilterType.Boolean, FilterType.Numeric}}

\* a Text filter whose value text value sanity refuses
InsaneTextCall ==
    /\ call.fn = "checkInvalidFilter"
    /\ ret /= Pending
    /\ call.filter = FilterType.Text
    /\ SanityVerdict(call.value) /= Null

\* C18 as stated: text value sanity is applied ahead of the hints, so a Text
\* filter on a typed simple key that is no function, with an unquoted value
\* that is empty or has an unescaped double quote, gets the value-sanity
\* reason and not the expected-type hint.
C18_SanityFirstOriginal ==
    (/\ InsaneTextCall
     /\ call.key.type = Token.KeySimple
     /\ TypedPlainName(config, NameOf(call.key))) =>
        ret.value = SanityVerdict(call.value)

\* C18: for a Text filter whose unquoted value is empty or has an unescaped
\* double quote, the hint is applied ahead of text value sanity: on a typed
\* simple key that is no function the verdict is the expected-type hint with
\* neither value-sanity reason; the value-sanity reason is the verdict only
\* when the key is an explicit tag, a function, or of no typed family.
C18_HintAheadOfSanity ==
    InsaneTextCall =>
        IF call.key.type /= Token.KeyExplicitTag /\ TypedPlainName(config, NameOf(call.key))
        THEN /\ "expectedType" \in DOMAIN ret.value
             /\ ret.value.reason \notin {"Quotes must enclose text or be escaped",
                                         "Filter must have a value"}
        ELSE ret.value = SanityVerdict(call.value)

\* duration:a"b gets the duration hint
C18_Witness ==
    /\ InsaneTextCall
    /\ call.key = SimpleKey("duration")
    /\ "duration" \in config.durationKeys
    /\ call.value.value = <<"a", "\"", "b">>
    /\ ret.value.expectedType = <<FilterType.Duration>>

\* C19: a Text filter on an explicit tag key, and every Is or Has filter,
\* gets the verdict of text value sanity on its value, without expectedType,
\* whatever typed families the (inner) key name is in.
C19_SanityOnly ==
    (/\ call.fn = "checkInvalidFilter"
     /\ ret /= Pending
     /\ \/ call.filter = FilterType.Text /\ call.key.type = Token.KeyExplicitTag
        \/ call.filter \in {FilterType.Is, FilterType.Has}) =>
        /\ ret.value = SanityVerdict(call.value)
        /\ "expectedType" \notin DOMAIN ret.value

\* tags[duration]:a"b gets the quotes reason, not the duration hint
C19_Witness ==
    /\ call.fn = "checkInvalidFilter"
    /\ ret /= Pending
    /\ call.filter = FilterType.Text
    /\ call.key = ExplicitTagKey("duration")
    /\ "duration" \in config.durationKeys
    /\ call.value.value = <<"a", "\"", "b">>
    /\ ret.value = [reason |-> "Quotes must enclose text or be escaped"]


\* the key names an aggregate filter type requires the function to be of
AggregateFamily(cfg, type) ==
    CASE type = FilterType.AggregateDuration -> TypedNames(cfg, FilterType.Duration)
      [] type \in {FilterType.AggregateDate, FilterType.AggregateRelativeDate} ->
            TypedNames(cfg, FilterType.Date)
      [] type = FilterType.AggregatePercentage -> cfg.percentageKeys
      [] type = FilterType.AggregateNumeric -> TypedNames(cfg, FilterType.Numeric)

\* the reason of argument position p of an aggregate key, Null when the
\* position is in order
PositionReason(key, p) ==
    LET name == NameOf(key)
        parameters == AGGREGATIONS[name].parameters
        args == KeyArgs(key)
    IN  validateAggregateParameter(name,
            IF p <= Len(parameters) THEN parameters[p] ELSE Undefined,
            IF p <= Len(args) /\ args[p].value /= Null THEN args[p].value.value ELSE <<>>,
            p, Len(parameters))

\* the argument positions of an aggregate key that fail
FailingPositions(key) ==
    IF NameOf(key) \notin DOMAIN AGGREGATIONS THEN {}
    ELSE {p \in 1..Max(Len(AGGREGATIONS[NameOf(key)].parameters), Len(KeyArgs(key))) :
            PositionReason(key, p) /= Null}

\* C20: the verdict of an aggregate filter is its first failure: when the
\* function's name is not of the family the filter type requires, the
\* value-type reason "'<fn>' returns a <type>; '<value.text>' is not valid
\* here." whatever the arguments (<type> reads "undefined" for a name the
\* catalog does not know); otherwise the reason of the lowest failing
\* argument position; null when nothing fails.
C20_AggregateFirstFailure ==
    (/\ call.fn = "checkInvalidFilter"
     /\ ret /= Pending
     /\ call.filter \in AggregateFilter) =>
        LET name == NameOf(call.key)
            failing == FailingPositions(call.key)
        IN  ret.value =
                IF name \notin AggregateFamily(config, call.filter)
                THEN [reason |-> "'" \o name \o "' returns a "
                                 \o (IF name \in DOMAIN FIELDS THEN FIELDS[name].valueType
                                     ELSE "undefined")
                                 \o "; '" \o call.value.text \o "' is not valid here."]
                ELSE IF failing = {} THEN Null
                ELSE PositionReason(call.key,
                        CHOOSE p \in failing : \A q \in failing : p <= q)

\* max(bar,duration) compared with a number: both positions fail, the
\* reason is the one of position 1
C20_Witness ==
    /\ call.fn = "checkInvalidFilter"
    /\ ret /= Pending
    /\ call.filter = FilterType.AggregateNumeric
    /\ call.key = AggregateKey("max", <<<<"b", "a", "r">>,
                                        <<"d", "u", "r", "a", "t", "i", "o", "n">>>>)
    /\ FailingPositions(call.key) = {1, 2}
    /\ PositionReason(call.key, 2) = [reason |-> "max is expecting 1 arguments."]
    /\ ret.value = [reason |-> "max expects argument 1 to be a column."]

\* count(duration) compared with a percentage: the value-type reason, not
\* the reason of the surplus argument
C20_WitnessValueType ==
    /\ call.fn = "checkInvalidFilter"
    /\ ret /= Pending
    /\ call.filter = FilterType.AggregatePercentage
    /\ call.key = AggregateKey("count", <<<<"d", "u", "r", "a", "t", "i", "o", "n">>>>)
    /\ FailingPositions(call.key) = {1}
    /\ ret.value = [reason |-> "'count' returns a number; '" \o call.value.text
                               \o "' is not valid here."]


----------------------------------------------------------------------------
(* Properties of the aggregate parameters *)

\* "<fn> is expecting N arguments."
ArityReason(keyName, n) ==
    [reason |-> keyName \o " is expecting " \o ToString(n) \o " arguments."]

\* C21: for an aggregate of AGGREGATIONS with N declared parameters the
\* positions up to max(N, provided) are examined: a required parameter that
\* is missing or empty, and an argument beyond the N declared ones, give
\* "<fn> is expecting N arguments."; a missing optional parameter gives no
\* error.  On a whole filter the arity reason is the verdict when no lower
\* position fails.
C21_AggregateArity ==
    /\ (call.fn = "validateAggregateParameter" /\ ret /= Pending) =>
          LET def == call.parameterDefinition
              arity == ArityReason(call.keyName, call.numExpectedArguments)
          IN  /\ def = Undefined => ret.value = arity
              /\ (def /= Undefined /\ call.parameterValue = <<>>) =>
                    ret.value = IF def.required THEN arity ELSE Null
              /\ (def /= Undefined /\ call.parameterValue /= <<>>) => ret.value /= arity
    /\ (/\ call.fn = "checkInvalidFilter"
        /\ ret /= Pending
        /\ call.filter \in AggregateFilter
        /\ NameOf(call.key) \in DOMAIN AGGREGATIONS
        /\ NameOf(call.key) \in AggregateFamily(config, call.filter)) =>
          LET name == NameOf(call.key)
              parameters == AGGREGATIONS[name].parameters
              provided == Len(KeyArgs(call.key))
              arity == ArityReason(name, Len(parameters))
              lacking == {p \in 1..Len(parameters) : p > provided /\ parameters[p].required}
              surplus == {p \in 1..provided : p > Len(parameters)}
          IN  /\ (lacking \cup surplus = {}) => ret.value /= arity
              /\ (/\ lacking \cup surplus /= {}
                  /\ \A q \in FailingPositions(call.key) :
                        \E p \in lacking \cup surplus : p <= q) => ret.value = arity

\* count(duration) with count a numeric key: the argument is one too many
C21_Witness ==
    /\ call.fn = "checkInvalidFilter"
    /\ ret /= Pending
    /\ call.filter = FilterType.AggregateNumeric
    /\ call.key = AggregateKey("count", <<<<"d", "u", "r", "a", "t", "i", "o", "n">>>>)
    /\ "count" \in AggregateFamily(config, call.filter)
    /\ ret.value = [reason |-> "count is expecting 0 arguments."]

\* p95() lacks its optional column: no error
C21_WitnessOptional ==
    /\ call.fn = "checkInvalidFilter"
    /\ ret /= Pending
    /\ call.filter = FilterType.AggregateDuration
    /\ call.key = AggregateKey("p95", <<>>)
    /\ ~AGGREGATIONS["p95"].parameters[1].required
    /\ ret.value = Null


\* a direct call of validateAggregateParameter that reaches the parameter's
\* kind: the parameter is declared and the argument is not empty
ReachesKind(kind) ==
    /\ call.fn = "validateAggregateParameter"
    /\ ret /= Pending
    /\ call.parameterDefinition /= Undefined
    /\ call.parameterDefinition.kind = kind
    /\ call.parameterValue /= <<>>

\* C22: a column parameter whose columnTypes is callable is asked with the
\* argument's name and the valueType of the argument's own field definition;
\* the verdict is "Argument <pos> is an invalid column type." exactly when
\* it answers false.
C22_ColumnTypesArgument ==
    (ReachesKind("column") /\ call.parameterDefinition.callable) =>
        ret.value =
            IF ~CallColumnTypes(call.parameterDefinition, Str(call.parameterValue),
                    ValueTypeText(getFieldDefinition(Str(call.parameterValue))))
            THEN [reason |-> "Argument " \o ToString(call.position)
                             \o " is an invalid column type."]
            ELSE Null


\* C23: for a value parameter the argument's type is number when parseFloat
\* of it is not NaN and string otherwise; when it differs from the declared
\* dataType the verdict is "<fn> expects argument <pos> to be of type
\* <dataType>", and null when it matches.
C23_ValueParameterType ==
    ReachesKind("value") =>
        LET inferred == IF ParsesAsFloat(call.parameterValue) THEN FieldValueType.NUMBER
                        ELSE FieldValueType.STRING
        IN  ret.value =
                IF inferred /= call.parameterDefinition.dataType
                THEN [reason |-> call.keyName \o " expects argument "
                                 \o ToString(call.position) \o " to be of type "
                                 \o call.parameterDefinition.dataType]
                ELSE Null


----------------------------------------------------------------------------
(* Properties of in filters and of the valid operators *)

\* an in filter has been validated
InFilterCall ==
    /\ call.fn = "checkInvalidFilter"
    /\ ret /= Pending
    /\ call.filter \in {FilterType.TextIn, FilterType.NumericIn}

\* the items of the validated list that are missing
MissingItems == {i \in DOMAIN call.value.items : call.value.items[i].value = Null}

\* the items of the validated list that are text values of no characters
EmptyTextItems ==
    {i \in DOMAIN call.value.items \ MissingItems :
        /\ call.value.items[i].value.type = Token.ValueText
        /\ call.value.items[i].value.value = <<>>}

\* C24 as stated: a TextIn or NumericIn filter gets "Lists should not have
\* empty values" if an item is null or is a text value that is the empty
\* string, and null otherwise.
C24_InListOriginal ==
    InFilterCall =>
        ret.value = IF MissingItems \cup EmptyTextItems /= {}
                    THEN [reason |-> "Lists should not have empty values"]
                    ELSE Null

\* C24: a TextIn or NumericIn filter gets "Lists should not have empty
\* values" if an item of the list is missing (null), and null otherwise: an
\* item that is the quoted empty string is not missing; the key and the
\* configuration play no part.
C24_InList ==
    InFilterCall =>
        ret.value = IF MissingItems /= {}
                    THEN [reason |-> "Lists should not have empty values"]
                    ELSE Null

\* [a,""] on a duration key: the quoted empty string is an item, the list
\* is valid
C24_Witness ==
    /\ InFilterCall
    /\ call.filter = FilterType.TextIn
    /\ call.key = SimpleKey("duration")
    /\ Len(call.value.items) = 2
    /\ MissingItems = {}
    /\ EmptyTextItems = {2}
    /\ ret.value = Null

\* a list whose second item is missing and whose third is present
C24_WitnessMissing ==
    /\ InFilterCall
    /\ MissingItems = {2}
    /\ Len(call.value.items) = 3
    /\ ret.value = [reason |-> "Lists should not have empty values"]


\* the filter types interchangeable with a type
Interchangeable(type) ==
    CASE type = FilterType.SpecificDate -> {FilterType.Date}
      [] type = FilterType.Date -> {FilterType.SpecificDate}
      [] OTHER -> {}

\* the filter has a verdict with an expected-type hint
HasHint(f) == f.invalid /= Null /\ "expectedType" \in DOMAIN f.invalid

\* C25: getValidOps(filter) has no duplicates and holds the validOps of every
\* type of the base set and of its interchangeable types; the base set is
\* invalid.expectedType when the filter is invalid with a hint and the
\* filter's own type otherwise.  A SpecificDate filter gets the seven
\* operators of Date; an invalid Text filter on a date key gets them too.
C25_ValidOps ==
    (call.fn = "getValidOps" /\ ret /= Pending) =>
        LET f == call.filterToken
            base == IF HasHint(f) THEN Range(f.invalid.expectedType) ELSE {f.filter}
            types == base \cup UNION {Interchangeable(t) : t \in base}
        IN  /\ \A i, j \in DOMAIN ret.value : ret.value[i] = ret.value[j] => i = j
            /\ Range(ret.value) = UNION {Range(filterTypeConfig[t].validOps) : t \in types}
            /\ f.filter = FilterType.SpecificDate =>
                    Range(ret.value) = {"", ">=", "<=", ">", "<", "=", "!="}
            /\ (/\ f.filter = FilterType.Text
                /\ HasHint(f)
                /\ FilterType.Date \in Range(f.invalid.expectedType)) =>
                    Range(ret.value) = {"", ">=", "<=", ">", "<", "=", "!="}

\* timestamp:abc, a Text filter on a date key: the seven Date operators
C25_Witness ==
    /\ call.fn = "getValidOps"
    /\ ret /= Pending
    /\ call.filterToken.filter = FilterType.Text
    /\ call.filterToken.key = SimpleKey("timestamp")
    /\ HasHint(call.filterToken)
    /\ Len(ret.value) = 7
    /\ Range(filterTypeConfig[FilterType.Text].validOps) = {"", "!="}

\* a SpecificDate filter, whose own validOps is empty
C25_WitnessSpecificDate ==
    /\ call.fn = "getValidOps"
    /\ ret /= Pending
    /\ call.filterToken.filter = FilterType.SpecificDate
    /\ filterTypeConfig[FilterType.SpecificDate].validOps = <<>>
    /\ ret.value = allOperators


----------------------------------------------------------------------------
(* Properties of predicateFilter outside the typed families *)

\* C27: for a function key predicateFilter refuses every filter type other
\* than the five aggregate types and Text, whatever sets the name is in; for
\* a key that is no function it admits every type outside Numeric,
\* NumericIn, Duration, Boolean, Date, RelativeDate and SpecificDate, the
\* aggregate types included.
C27_OutsideTypedFamilies ==
    (call.fn = "predicateFilter" /\ ret /= Pending) =>
        IF IsFunctionKey(NameOf(call.key))
        THEN call.type \in {"numeric", "numericIn", "duration", "boolean", "date",
                            "specificDate", "relativeDate", "textIn", "has", "is"}
                => ret.value = FALSE
        ELSE call.type \in {"text", "textIn", "has", "is", "aggregateDuration",
                            "aggregatePercentage", "aggregateNumeric", "aggregateDate",
                            "aggregateRelativeDate"}
                => ret.value = TRUE

\* count, in every typed family of the configuration, is refused as a has
\* filter's key
C27_Witness ==
    /\ call.fn = "predicateFilter"
    /\ ret /= Pending
    /\ call.type = FilterType.Has
    /\ call.key = SimpleKey("count")
    /\ \A f \in Families : "count" \in config[f]
    /\ ret.value = FALSE

\* foo(duration), foo being no function, is admitted as AggregateDuration
C27_WitnessPlainKey ==
    /\ call.fn = "predicateFilter"
    /\ ret /= Pending
    /\ call.type = FilterType.AggregateDuration
    /\ call.key = AggregateKey("foo", <<<<"d", "u", "r", "a", "t", "i", "o", "n">>>>)
    /\ "foo" \notin config.durationKeys
    /\ ret.value = TRUE


----------------------------------------------------------------------------
(* Properties of the search groups *)

\* the items a list of groups shows: the children and the children's children
GroupedItems(groups) ==
    UNION {Range(groups[g].children)
           \cup UNION {Range(child.children[1]) :
                         child \in {c \in Range(groups[g].children) : c.children /= None}} :
           g \in DOMAIN groups}

\* the positions of s that hold a recent search
RecentPositions(s) == {i \in DOMAIN s : s[i].type = ItemType.RECENT_SEARCH}

\* the recent-search group of a list of groups: the positions it is at
RecentGroupPositions(groups) ==
    {g \in DOMAIN groups :
        /\ groups[g].children /= <<>>
        /\ \A c \in Range(groups[g].children) : c.type = ItemType.RECENT_SEARCH}

\* in the default state the recent searches come first, otherwise last
RecentsOrdered ==
    LET out == ret.value
        flat == out.flatSearchItems
        groups == out.searchGroups
    IN  IF call.isDefaultState
        THEN /\ \A i \in RecentPositions(flat) : \A j \in DOMAIN flat \ RecentPositions(flat) : i < j
             /\ RecentGroupPositions(groups) \subseteq {1}
        ELSE /\ \A i \in RecentPositions(flat) : \A j \in DOMAIN flat \ RecentPositions(flat) : i > j
             /\ RecentGroupPositions(groups) \subseteq {Len(groups)}

\* C30: the two outputs of createSearchGroups are consistent: every item of
\* flatSearchItems is shown by one of the searchGroups, as a child or a
\* child's child, so a recent search left out of the groups for being longer
\* than queryCharsLeft is not in flatSearchItems either; in the default state
\* the recent searches come first in both outputs, otherwise last;
\* activeSearchItem is -1.
C30_GroupsMatchFlatItems ==
    (call.fn = "createSearchGroups" /\ ret /= Pending) =>
        /\ Range(ret.value.flatSearchItems) \subseteq GroupedItems(ret.value.searchGroups)
        /\ RecentsOrdered
        /\ ret.value.activeSearchItem = -1

\* the order of the recent searches, the active item, and the items that
\* are no recent searches
OrderAndActiveItem ==
    (call.fn = "createSearchGroups" /\ ret /= Pending) =>
        /\ RecentsOrdered
        /\ ret.value.activeSearchItem = -1
        /\ \A item \in Range(ret.value.flatSearchItems) :
              item.type /= ItemType.RECENT_SEARCH
                  => item \in GroupedItems(ret.value.searchGroups)


----------------------------------------------------------------------------
(* Properties of the IssueWidgetQueries component *)

\* the properties of the queries other than their names
QueryContents(p) == [i \in DOMAIN p.widget.queries |-> p.widget.queries[i].conditions]

\* something other than a query name differs between two props
DiffersBeyondNames(p, q) ==
    \/ p.widget.displayType /= q.widget.displayType
    \/ p.widget.interval /= q.widget.interval
    \/ QueryContents(p) /= QueryContents(q)
    \/ p.selection /= q.selection
    \/ p.cursor /= q.cursor

\* C26: on an update the component calls fetchData exactly when the
\* displayType, the interval, the queries without their names, the selection
\* or the cursor differ between the previous and the current props; an
\* update that changes query names only calls no fetchData and leaves
\* loading, tableResults and errorMessage as they were.
C26_RefetchOnUpdate ==
    [][(mounted /\ props' /= props) =>
          /\ (Len(requests') = Len(requests) + 1) <=> DiffersBeyondNames(props, props')
          /\ ~DiffersBeyondNames(props, props') =>
                /\ requests' = requests
                /\ state'.loading = state.loading
                /\ state'.tableResults = state.tableResults
                /\ state'.errorMessage = state.errorMessage]_vars

\* the query has been renamed since the component was mounted and the only
\* fetchData call is still the one of componentDidMount
C26_Witness ==
    /\ mounted
    /\ props.widget.queries[1].name = "renamed"
    /\ Len(requests) = 1

\* the request of the last fetchData call
LastRequest == requests[Len(requests)]

\* C28: when the API request of a fetchData call resolves the component
\* ends with loading = false, errorMessage = undefined, tableResults,
\* totalCount and pageLinks from the response, and one onDataFetched call
\* with those results; the state is written only after the response has
\* been received, so loading stays true while the request is pending.
C28_ResolvedFetchShowsData ==
    (mounted /\ requests /= <<>>) =>
        /\ LastRequest.status = "pending" => state.loading = TRUE
        /\ LastRequest.status = "resolved" =>
              /\ state.loading = FALSE
              /\ state.errorMessage = None
              /\ state.tableResults = LastRequest.locals.transformedResults[1].data
              /\ state.totalCount = LastRequest.locals.totalCount
              /\ state.pageLinks = LastRequest.locals.pageLinks
              /\ dataFetched /= <<>>
              /\ dataFetched[Len(dataFetched)].issuesResults = state.tableResults

\* C29: when the API request of a fetchData call is rejected the component
\* ends with loading = false, tableResults = [] and errorMessage = the
\* response's responseJSON.detail when there is one and "Unable to load
\* Widget" otherwise.
C29_RejectedFetchShowsDetail ==
    (mounted /\ requests /= <<>> /\ LastRequest.status = "rejected") =>
        /\ state.loading = FALSE
        /\ state.tableResults = <<>>
        /\ state.errorMessage =
              IF LastRequest.rejection[1].detail /= None
              THEN LastRequest.rejection[1].detail
              ELSE Some("Unable to load Widget")

\* what every fetchData call leaves behind, whatever becomes of its request
FetchAlwaysFails ==
    mounted =>
        /\ state.loading = FALSE
        /\ state.tableResults = <<>>
        /\ state.errorMessage = Some("Unable to load Widget")
        /\ dataFetched = <<>>

====
